---- MODULE Spec2Model ----
(***************************************************************************)
(* Competitive Sudoku, team 42: the game-state layer (legal-move           *)
(* generation, move application, region scoring, static evaluation), the   *)
(* simplified rollout step and the constraint-pruning heuristics.          *)
(*                                                                         *)
(* GameState objects live in a heap of references, as Python objects do:   *)
(* copy.deepcopy allocates a new object, every other statement works on    *)
(* the object it is handed.  A square is <<row, column>>; the board is the *)
(* flat list SudokuBoard.squares, indexed N * row + column from 0.         *)
(* Floats are kept exact: evaluate_state's value is carried as value * N.  *)
(***************************************************************************)
EXTENDS Integers, Sequences, FiniteSets, TLC

VARIABLES
    heap,      \* reference -> GameState object (or NoObject)
    stack,     \* the references of the search path: root, child, grandchild...
    op,        \* the last completed operation, with the input as it was on entry
    pc,        \* "idle", inside evaluate_state ("p1", "p2"), or "crashed"
    ev,        \* the locals of evaluate_state / _get_space_value
    ro,        \* the rollout of MCTSimplified.simulate: its object and moves left
    h,         \* the last call of the pruning heuristics: input and outputs
    run,       \* a run of compute_best_move: its position, locals and proposals
    tree       \* the nodes of the MonteCarloTree of the run

vars == <<heap, stack, op, pc, ev, ro, h, run, tree>>

----------------------------------------------------------------------------
(* Bounds of the model *)

MaxDepth == 2        \* moves applied on top of a root state
MaxSimDepth == 0     \* depth of the states from which rollouts are followed
MaxRollout == 2      \* steps of a simplified rollout that are followed
MaxPruneDepth == 0   \* depth of the states whose moves are pruned
MaxSearchDepth == 2  \* depth argument of the minimax searches
MaxSearchPly == 0    \* depth of the states the searches start from
MaxCycles == 3       \* simulated games of a tree under a driver
MaxTreeCycles == 4   \* simulated games of a tree run on its own
MaxSavingDepth == 3  \* deepest iteration of the saving driver

(* Program constants *)

empty == 0           \* SudokuBoard.empty, the "0 not in region" of _move_score
DUMMY_VALUE == 42    \* _simplified_make_move

Refs == 1..(MaxDepth + 2)

----------------------------------------------------------------------------
(* Small helpers on lists *)

Range(s) == { s[i] : i \in 1..Len(s) }

RECURSIVE Flatten(_)
Flatten(ss) == IF ss = <<>> THEN <<>> ELSE Head(ss) \o Flatten(Tail(ss))

Some(x) == [isNone |-> FALSE, val |-> x]
None == [isNone |-> TRUE, val |-> <<>>]

Move(square, value) == [square |-> square, value |-> value]

SquareIndex(N, square) == N * square[1] + square[2]

(* sorted(list(set(...))) on squares: tuples sort by row, then column *)
RECURSIVE SortedSquares(_, _)
SortedSquares(N, S) ==
    IF S = {} THEN <<>>
    ELSE LET x == CHOOSE x \in S :
                    \A y \in S : SquareIndex(N, x) <= SquareIndex(N, y)
         IN <<x>> \o SortedSquares(N, S \ {x})

(* iteration over a set of small ints: ascending *)
RECURSIVE SortedValues(_)
SortedValues(S) ==
    IF S = {} THEN <<>>
    ELSE LET x == CHOOSE x \in S : \A y \in S : x <= y
         IN <<x>> \o SortedValues(S \ {x})

----------------------------------------------------------------------------
(* The framework's board and game state (competitive_sudoku.sudoku) *)

board_get(board, square) == board.squares[SquareIndex(board.N, square)]

board_put(board, square, value) ==
    [board EXCEPT !.squares[SquareIndex(board.N, square)] = value]

AllSquares(N) == { <<i, j>> : i \in 0..(N - 1), j \in 0..(N - 1) }

neighbors(N, square) ==
    { <<square[1] + dr, square[2] + dc>> : dr \in {-1, 0, 1}, dc \in {-1, 0, 1} }
        \cap (AllSquares(N) \ {square})

(* GameState.player_squares: None when every square is allowed, else the    *)
(* empty squares among the player's allowed squares and among the          *)
(* neighbours of the squares the player occupies, sorted, no duplicates.   *)
player_squares(game_state) ==
    LET N == game_state.board.N
        allowed == IF game_state.current_player = 1
                   THEN game_state.allowed_squares1
                   ELSE game_state.allowed_squares2
        occupied == IF game_state.current_player = 1
                    THEN game_state.occupied_squares1
                    ELSE game_state.occupied_squares2
        is_empty(s) == board_get(game_state.board, s) = empty
        result == { s \in Range(allowed.val) : is_empty(s) }
                  \cup { s2 \in AllSquares(N) :
                           /\ is_empty(s2)
                           /\ \E s1 \in Range(occupied) : s2 \in neighbors(N, s1) }
    IN IF allowed.isNone THEN None ELSE Some(SortedSquares(N, result))

----------------------------------------------------------------------------
(* team42_A2/check_legal_moves.py *)

get_row(board, square) ==
    { board.squares[k] : k \in (square[1] * board.N)..((square[1] + 1) * board.N - 1) }

get_column(board, square) ==
    { board.squares[square[2] + board.N * i] : i \in 0..(board.N - 1) }

(* faulty variant: block height and width exchanged *)
get_block_swapped(board, square) ==
    LET region_row == (square[1] \div board.n) * board.n
        region_col == (square[2] \div board.m) * board.m
    IN { board_get(board, <<region_row + i, region_col + j>>) :
            i \in 0..(board.n - 1), j \in 0..(board.m - 1) }

get_block(board, square) ==
    LET region_row == (square[1] \div board.m) * board.m
        region_col == (square[2] \div board.n) * board.n
    IN { board_get(board, <<region_row + i, region_col + j>>) :
            i \in 0..(board.m - 1), j \in 0..(board.n - 1) }

(* faulty variant: the occupied squares are not left out *)
full_board_all(game_state) ==
    SortedSquares(game_state.board.N, AllSquares(game_state.board.N))

full_board(game_state) ==
    LET N == game_state.board.N
        empty_board == SortedSquares(N, AllSquares(N))
        occupied_squares == Range(game_state.occupied_squares1
                                  \o game_state.occupied_squares2)
    IN SelectSeq(empty_board, LAMBDA square : square \notin occupied_squares)

(* faulty variant: the taboo moves are not filtered out *)
get_legal_moves_taboo_kept(game_state) ==
    LET N == game_state.board.N
        ps == player_squares(game_state)
        allowed_squares == IF ps.isNone THEN full_board(game_state) ELSE ps.val
        symbols(square) == (((1..N) \ get_row(game_state.board, square))
                                \ get_column(game_state.board, square))
                                \ get_block(game_state.board, square)
        for_square(square) ==
            LET vals == SortedValues(symbols(square))
            IN [k \in 1..Len(vals) |-> Move(square, vals[k])]
    IN Flatten([i \in 1..Len(allowed_squares) |-> for_square(allowed_squares[i])])

get_legal_moves(game_state) ==
    LET N == game_state.board.N
        ps == player_squares(game_state)
        allowed_squares == IF ps.isNone THEN full_board(game_state) ELSE ps.val
        taboo_moves == { <<mv.square, mv.value>> : mv \in Range(game_state.taboo_moves) }
        symbols(square) == (((1..N) \ get_row(game_state.board, square))
                                \ get_column(game_state.board, square))
                                \ get_block(game_state.board, square)
        for_square(square) ==
            LET vals == SortedValues(symbols(square))
                kept == SelectSeq(vals, LAMBDA value : <<square, value>> \notin taboo_moves)
            IN [k \in 1..Len(kept) |-> Move(square, kept[k])]
    IN Flatten([i \in 1..Len(allowed_squares) |-> for_square(allowed_squares[i])])

----------------------------------------------------------------------------
(* team42_A1/check_legal_moves.py.  A call that raises returns raised = TRUE *)

A1_get_row(board, square) ==
    { board_get(board, <<square[1], j>>) : j \in 0..(board.N - 1) }

A1_get_column(board, square) ==
    { board_get(board, <<i, square[2]>>) : i \in 0..(board.N - 1) }

A1_get_block(board, square) ==
    LET region_row == (square[1] \div board.m) * board.m
        region_col == (square[2] \div board.n) * board.n
    IN { board_get(board, <<region_row + i, region_col + j>>) :
            j \in 0..(board.n - 1), i \in 0..(board.m - 1) }

(* full_board reads game_state.board.N of the object it is handed: an      *)
(* object without a board attribute raises AttributeError                  *)
A1_full_board(game_state) ==
    IF "board" \in DOMAIN game_state
    THEN [raised |-> FALSE, val |-> full_board(game_state)]
    ELSE [raised |-> TRUE, val |-> <<>>]

(* line 10 hands full_board the board, not the game state *)
A1_get_legal_moves(game_state) ==
    LET N == game_state.board.N
        ps == player_squares(game_state)
        allowed_squares == IF ps.isNone
                           THEN A1_full_board(game_state.board)
                           ELSE [raised |-> FALSE, val |-> ps.val]
        legal(square, value) ==
            /\ Move(square, value) \notin Range(game_state.taboo_moves)
            /\ value \notin A1_get_row(game_state.board, square)
            /\ value \notin A1_get_column(game_state.board, square)
            /\ value \notin A1_get_block(game_state.board, square)
        for_square(square) ==
            LET kept == SelectSeq([v \in 1..N |-> v], LAMBDA value : legal(square, value))
            IN [k \in 1..Len(kept) |-> Move(square, kept[k])]
    IN IF allowed_squares.raised
       THEN [raised |-> TRUE, moves |-> <<>>]
       ELSE [raised |-> FALSE,
             moves |-> Flatten([i \in 1..Len(allowed_squares.val) |->
                                    for_square(allowed_squares.val[i])])]

----------------------------------------------------------------------------
(* team42_A3_MCTS_simplified/monte_carlo_tree.py: _move_score, _make_move *)

_move_score(board, square) ==
    LET score == <<0, 1, 3, 7>>
        is_filled(region) == IF 0 \notin region THEN 1 ELSE 0
        n_filled == is_filled(get_row(board, square))
                    + is_filled(get_column(board, square))
                    + is_filled(get_block(board, square))
    IN score[n_filled + 1]

(* faulty variant: the value is put on the transposed square *)
apply_move_transposed(new_state, move) ==
    LET s1 == [new_state EXCEPT !.board =
                  board_put(@, <<move.square[2], move.square[1]>>, move.value)]
        s2 == [s1 EXCEPT !.moves = Append(@, move)]
        move_score == _move_score(s2.board, move.square)
        s3 == [s2 EXCEPT !.scores[s2.current_player] = @ + move_score]
        s4 == IF s3.current_player = 1
              THEN [s3 EXCEPT !.occupied_squares1 = @ \o <<move.square>>]
              ELSE [s3 EXCEPT !.occupied_squares2 = @ \o <<move.square>>]
    IN [s4 EXCEPT !.current_player = 3 - @]

(* faulty variant: the player is flipped before the occupied squares are extended *)
apply_move_flip_first(new_state, move) ==
    LET s1 == [new_state EXCEPT !.board = board_put(@, move.square, move.value)]
        s2 == [s1 EXCEPT !.moves = Append(@, move)]
        move_score == _move_score(s2.board, move.square)
        s3 == [s2 EXCEPT !.scores[s2.current_player] = @ + move_score,
                         !.current_player = 3 - @]
    IN IF s3.current_player = 1
       THEN [s3 EXCEPT !.occupied_squares1 = @ \o <<move.square>>]
       ELSE [s3 EXCEPT !.occupied_squares2 = @ \o <<move.square>>]

(* The statements of _make_move after the deepcopy, on the copy new_state *)
apply_move(new_state, move) ==
    LET s1 == [new_state EXCEPT !.board = board_put(@, move.square, move.value)]
        s2 == [s1 EXCEPT !.moves = Append(@, move)]
        move_score == _move_score(s2.board, move.square)
        s3 == [s2 EXCEPT !.scores[s2.current_player] = @ + move_score]
        s4 == IF s3.current_player = 1
              THEN [s3 EXCEPT !.occupied_squares1 = @ \o <<move.square>>]
              ELSE [s3 EXCEPT !.occupied_squares2 = @ \o <<move.square>>]
    IN [s4 EXCEPT !.current_player = 3 - @]

(* faulty variant: no deepcopy, new_state is the object handed in *)
_make_move_in_place(hp, game_state, move, fresh) ==
    [heap |-> [hp EXCEPT ![game_state] = apply_move(@, move)],
     ref |-> game_state]

(* _make_move on the heap: `fresh` is the reference copy.deepcopy allocates. *)
(* Returns the heap after the call and the reference returned.              *)
_make_move(hp, game_state, move, fresh) ==
    [heap |-> [hp EXCEPT ![fresh] = apply_move(hp[game_state], move)],
     ref |-> fresh]

----------------------------------------------------------------------------
(* team42_A2/sudoku_heuristics.py.  A moves dict (square -> set of values)  *)
(* is [keys, vals]: keys is the insertion order, vals the mapping.  The     *)
(* value sets hold ints of 1..N, which Python iterates in ascending order,  *)
(* so itertools.combinations yields the pairs a < b in lexicographic order. *)

_square_valid_moves(square, board) ==
    (((1..board.N) \ get_row(board, square)) \ get_column(board, square))
        \ get_block(board, square)

_get_row_squares(row_idx, board) == { <<row_idx, i>> : i \in 0..(board.N - 1) }

_get_col_squares(col_idx, board) == { <<i, col_idx>> : i \in 0..(board.N - 1) }

(* lines 197-199: the row is rounded with board.n, the column with board.m *)
_get_region_squares(square, board) ==
    LET x == (square[1] \div board.n) * board.n
        y == (square[2] \div board.m) * board.m
    IN { <<x + i, y + j>> : i \in 0..(board.n - 1), j \in 0..(board.m - 1) }

(* lines 70-74, 116-120, 163-167: the three groups of a square, in order *)
groups_of(square, board) ==
    << _get_row_squares(square[1], board) \ {square},
       _get_col_squares(square[2], board) \ {square},
       _get_region_squares(square, board) \ {square} >>

EmptyOf(group, board) == { sq \in group : board_get(board, sq) = empty }

(* combinations(values, 2) *)
combinations2(values) == { pair \in values \X values : pair[1] < pair[2] }

(* the first of a set of pairs in the order combinations yields them *)
FirstPair(pairs) ==
    CHOOSE p \in pairs :
        \A q \in pairs : p[1] < q[1] \/ (p[1] = q[1] /\ p[2] <= q[2])

(* the first group whose result passes the test, 0 when the loop ends *)
FirstGroup(hits) ==
    IF hits = {} THEN 0 ELSE CHOOSE g \in hits : \A k \in hits : g <= k

(* lines 19-24: moves_dict of a list of moves *)
moves_dict(moves) ==
    LET first == { i \in 1..Len(moves) :
                     \A j \in 1..(i - 1) : moves[j].square # moves[i].square }
        order == SortedValues(first)
    IN [keys |-> [k \in 1..Len(order) |-> moves[order[k]].square],
        vals |-> [sq \in { moves[i].square : i \in 1..Len(moves) } |->
                    { moves[i].value : i \in { j \in 1..Len(moves) :
                                                 moves[j].square = sq } }]]

(* lines 33-36: the list of moves of a moves dict *)
moves_list(moves) ==
    Flatten([k \in 1..Len(moves.keys) |->
               LET values == SortedValues(moves.vals[moves.keys[k]])
               IN [i \in 1..Len(values) |-> Move(moves.keys[k], values[i])]])

(* lines 53-62: apply_rule of only_squares_rule *)
only_squares_apply_rule(squares, values, board) ==
    LET available == UNION { _square_valid_moves(sq, board) : sq \in EmptyOf(squares, board) }
    IN IF values \ available # {} THEN values \ available ELSE values

(* faulty variant: the value found is stored without the intersection *)
only_squares_rule_found(moves, board) ==
    [moves EXCEPT !.vals =
        [square \in DOMAIN moves.vals |->
            LET values == _square_valid_moves(square, board)
                groups == groups_of(square, board)
                g == FirstGroup({ k \in 1..3 :
                        Cardinality(only_squares_apply_rule(groups[k], values, board)) = 1 })
            IN IF Cardinality(values) <= 1 \/ g = 0
               THEN moves.vals[square]
               ELSE only_squares_apply_rule(groups[g], values, board)]]

(* lines 64-81 *)
only_squares_rule(moves, board) ==
    [moves EXCEPT !.vals =
        [square \in DOMAIN moves.vals |->
            LET considered_vals == moves.vals[square]
                values == _square_valid_moves(square, board)
                groups == groups_of(square, board)
                g == FirstGroup({ k \in 1..3 :
                        Cardinality(only_squares_apply_rule(groups[k], values, board)) = 1 })
            IN IF Cardinality(values) <= 1 \/ g = 0
               THEN considered_vals
               ELSE considered_vals \cap
                        only_squares_apply_rule(groups[g], values, board)]]

(* lines 97-108: apply_rule of hidden_twin_rule, group_size = 2 *)
hidden_twin_apply_rule(squares, values, board) ==
    LET found == { subset \in combinations2(values) :
                     /\ Cardinality({ sq \in squares :
                            {subset[1], subset[2]} \subseteq _square_valid_moves(sq, board) }) = 1
                     /\ Cardinality({ sq \in squares :
                            {subset[1], subset[2]} \cap _square_valid_moves(sq, board) # {} }) = 1 }
    IN IF found = {} THEN values
       ELSE {FirstPair(found)[1], FirstPair(found)[2]}

(* lines 110-128, group_size = 2 *)
hidden_twin_rule(moves, board) ==
    [moves EXCEPT !.vals =
        [square \in DOMAIN moves.vals |->
            LET considered_vals == moves.vals[square]
                values == _square_valid_moves(square, board)
                groups == groups_of(square, board)
                found_vals(k) == hidden_twin_apply_rule(EmptyOf(groups[k], board), values, board)
                g == FirstGroup({ k \in 1..3 : Cardinality(found_vals(k)) = 2 })
            IN IF Cardinality(values) <= 2 \/ g = 0
               THEN considered_vals
               ELSE considered_vals \cap found_vals(g)]]

(* lines 143-156: apply_rule of naked_twin_rule, group_size = 2 *)
naked_twin_apply_rule(squares, values, board) ==
    LET available == UNION { _square_valid_moves(sq, board) : sq \in squares }
        found == { subset \in combinations2(available) :
                     /\ values \cap {subset[1], subset[2]} # {}
                     /\ Cardinality({ sq \in squares :
                            _square_valid_moves(sq, board) = {subset[1], subset[2]} }) = 2 }
    IN IF found = {} THEN values
       ELSE values \ {FirstPair(found)[1], FirstPair(found)[2]}

(* lines 158-175, group_size = 2: out[square] is still moves[square] when *)
(* the square's turn comes                                                *)
naked_twin_rule(moves, board) ==
    [moves EXCEPT !.vals =
        [square \in DOMAIN moves.vals |->
            LET values == moves.vals[square]
                groups == groups_of(square, board)
                found_vals(k) == naked_twin_apply_rule(EmptyOf(groups[k], board), values, board)
                g == FirstGroup({ k \in 1..3 : found_vals(k) # values })
            IN IF Cardinality(values) <= 2 \/ g = 0
               THEN values
               ELSE found_vals(g)]]

(* faulty variant: the twin rules are applied on every board *)
new_moves_ungated(moves, game_state) ==
    naked_twin_rule(
        hidden_twin_rule(only_squares_rule(moves_dict(moves), game_state.board),
                         game_state.board),
        game_state.board)

(* lines 26-30: the rules in turn; the twin rules on boards with N > 4 *)
new_moves(moves, game_state) ==
    LET after_only == only_squares_rule(moves_dict(moves), game_state.board)
    IN IF game_state.board.N > 4
       THEN naked_twin_rule(hidden_twin_rule(after_only, game_state.board),
                            game_state.board)
       ELSE after_only

sudoku_heuristics(moves, game_state) == moves_list(new_moves(moves, game_state))

----------------------------------------------------------------------------
(* The rules of the game, stated on coordinates, apart from the agents' code *)

RowCells(N, square) == { <<square[1], j>> : j \in 0..(N - 1) }
ColCells(N, square) == { <<i, square[2]>> : i \in 0..(N - 1) }
BlockCells(board, square) ==
    { c \in AllSquares(board.N) :
        /\ c[1] \div board.m = square[1] \div board.m
        /\ c[2] \div board.n = square[2] \div board.n }

Adjacent(a, b) ==
    /\ a # b
    /\ a[1] - b[1] \in {-1, 0, 1}
    /\ a[2] - b[2] \in {-1, 0, 1}

NonEmptySquares(board) == { c \in AllSquares(board.N) : board_get(board, c) # empty }

(* the squares player p may play on: every unoccupied square without a    *)
(* restriction, else the always-allowed squares and the neighbours of the *)
(* squares p occupies                                                     *)
AllowedSquares(game_state, p) ==
    LET allowed == IF p = 1 THEN game_state.allowed_squares1
                   ELSE game_state.allowed_squares2
        own == Range(IF p = 1 THEN game_state.occupied_squares1
                     ELSE game_state.occupied_squares2)
    IN IF allowed.isNone
       THEN AllSquares(game_state.board.N)
              \ (Range(game_state.occupied_squares1) \cup Range(game_state.occupied_squares2))
       ELSE { c \in AllSquares(game_state.board.N) :
                c \in Range(allowed.val) \/ \E o \in own : Adjacent(c, o) }

LegalMoveSet(game_state) ==
    LET board == game_state.board
        seen(c) == { board_get(board, d) :
                       d \in RowCells(board.N, c) \cup ColCells(board.N, c)
                             \cup BlockCells(board, c) }
        squares == { c \in AllowedSquares(game_state, game_state.current_player) :
                       board_get(board, c) = empty }
    IN UNION { { Move(c, v) : v \in (1..board.N) \ seen(c) } : c \in squares }
          \ Range(game_state.taboo_moves)

NoDuplicates(list) == Cardinality(Range(list)) = Len(list)

CompletedRegions(board, square) ==
    Cardinality({ region \in { RowCells(board.N, square), ColCells(board.N, square),
                               BlockCells(board, square) } :
                    \A c \in region : board_get(board, c) # empty })

----------------------------------------------------------------------------
(* Root states: positions of games played from an empty board *)

NoObject == [free |-> TRUE]

EmptyBoard(m, n) ==
    [m |-> m, n |-> n, N |-> m * n,
     squares |-> [k \in 0..(m * n * m * n - 1) |-> empty]]

Row(N, r) == [j \in 1..N |-> <<r, j - 1>>]

(* parse_game_state on an empty board: playmode "rows" gives player 1 the *)
(* first row and player 2 the last; "classic" allows every square.        *)
InitialState(m, n, playmode) ==
    [board |-> EmptyBoard(m, n),
     scores |-> <<0, 0>>,
     moves |-> <<>>,
     taboo_moves |-> <<>>,
     occupied_squares1 |-> <<>>,
     occupied_squares2 |-> <<>>,
     allowed_squares1 |-> IF playmode = "rows" THEN Some(Row(m * n, 0)) ELSE None,
     allowed_squares2 |-> IF playmode = "rows" THEN Some(Row(m * n, m * n - 1)) ELSE None,
     current_player |-> 1]

(* The referee's handling of an accepted move: the value is placed, the   *)
(* move recorded, the regions it completes are scored, the square becomes  *)
(* the mover's, and the turn passes.                                       *)
referee_move(game_state, move) ==
    LET board == board_put(game_state.board, move.square, move.value)
        reward == <<0, 1, 3, 7>>[CompletedRegions(board, move.square) + 1]
        mover == game_state.current_player
    IN [game_state EXCEPT
          !.board = board,
          !.moves = Append(@, move),
          !.scores[mover] = @ + reward,
          !.occupied_squares1 = IF mover = 1 THEN Append(@, move.square) ELSE @,
          !.occupied_squares2 = IF mover = 2 THEN Append(@, move.square) ELSE @,
          !.current_player = 3 - mover]

(* The referee's handling of a rejected move: it is recorded as taboo and  *)
(* in the history, nothing is placed, and the turn passes.                 *)
apply_taboo(game_state, move) ==
    [game_state EXCEPT !.taboo_moves = Append(@, move),
                       !.moves = Append(@, move),
                       !.current_player = 3 - @]

(* A game line: moves in playing order; taboo marks a rejected proposal *)
Ply(r, c, v) == [square |-> <<r, c>>, value |-> v, taboo |-> FALSE]
TabooPly(r, c, v) == [square |-> <<r, c>>, value |-> v, taboo |-> TRUE]

(* the positions of a game line: the start and the state after each ply *)
RECURSIVE Positions(_, _)
Positions(states, line) ==
    IF Len(states) > Len(line) THEN states
    ELSE LET prev == states[Len(states)]
             ply == line[Len(states)]
             mv == Move(ply.square, ply.value)
             next == IF ply.taboo THEN apply_taboo(prev, mv) ELSE referee_move(prev, mv)
         IN Positions(Append(states, next), line)

Replay(game_state, line, k) == Positions(<<game_state>>, line)[k + 1]

(* every placement and every rejected proposal of a line obeyed the rules *)
LineLegal(game_state, line) ==
    LET states == Positions(<<game_state>>, line)
    IN \A k \in 1..Len(line) :
          Move(line[k].square, line[k].value) \in LegalMoveSet(states[k])

(* 4x4, 2x2 blocks: a game inside the solution 1234 / 3412 / 2143 / 4321 *)
Line4 ==
    << Ply(0, 1, 2), Ply(3, 0, 4), Ply(1, 1, 4), Ply(3, 1, 3),
       Ply(1, 0, 3), Ply(3, 2, 2), Ply(2, 0, 2), Ply(3, 3, 1),
       Ply(0, 2, 3), Ply(2, 3, 3), Ply(0, 3, 4), Ply(2, 2, 4),
       Ply(0, 0, 1), Ply(2, 1, 1) >>

(* the same game with a rejected proposal of player 1 after four moves *)
Line4Taboo ==
    << Ply(0, 1, 2), Ply(3, 0, 4), Ply(1, 1, 4), Ply(3, 1, 3),
       TabooPly(0, 0, 3), Ply(3, 2, 2) >>

(* 6x6, 2x3 blocks (two rows by three columns) *)
Line6 ==
    << Ply(0, 1, 5), Ply(5, 2, 5), Ply(0, 4, 1), Ply(4, 3, 4),
       Ply(0, 2, 3), Ply(5, 0, 4), Ply(1, 4, 5), Ply(4, 0, 1),
       Ply(0, 0, 2), Ply(3, 1, 4), Ply(1, 5, 3), Ply(5, 1, 6),
       Ply(0, 3, 6), Ply(2, 1, 2), Ply(1, 1, 1), Ply(1, 2, 4),
       Ply(0, 5, 4), Ply(4, 1, 3), Ply(2, 0, 5), Ply(2, 3, 3),
       Ply(2, 5, 1), Ply(2, 4, 4), Ply(1, 0, 6), Ply(1, 3, 2),
       Ply(3, 5, 6), Ply(4, 4, 6), Ply(3, 0, 3), Ply(4, 2, 2),
       Ply(4, 5, 5), Ply(3, 2, 1), Ply(5, 5, 2), Ply(3, 4, 2) >>

RootStates ==
    { Replay(InitialState(2, 2, "rows"), Line4, k) : k \in {0, 10, 12, 14} }
    \cup { Replay(InitialState(2, 2, "rows"), Line4Taboo, 6) }
    \cup { Replay(InitialState(2, 2, "classic"), Line4, 11) }
    \cup { Replay(InitialState(2, 3, "rows"), Line6, k) : k \in {22, 30} }

LinesLegal ==
    /\ LineLegal(InitialState(2, 2, "rows"), Line4)
    /\ LineLegal(InitialState(2, 2, "rows"), Line4Taboo)
    /\ LineLegal(InitialState(2, 2, "classic"), Line4)
    /\ LineLegal(InitialState(2, 3, "rows"), Line6)

----------------------------------------------------------------------------
(* The state machine *)

NoOp == [name |-> "none"]
NoEv == [ref |-> 0]
NoRo == [ref |-> 0]
NoH == [called |-> FALSE]
NoRun == [driver |-> "none"]
NoTree == <<>>

top == stack[Len(stack)]

Allocated == { r \in Refs : heap[r] # NoObject }

Fresh == CHOOSE r \in Refs : heap[r] = NoObject /\ \A q \in Refs : q < r => heap[q] # NoObject

Init ==
    /\ run = NoRun
    /\ tree = NoTree
    /\ LinesLegal
    /\ \E root \in RootStates :
          heap = [r \in Refs |-> IF r = 1 THEN root ELSE NoObject]
    /\ stack = <<1>>
    /\ op = NoOp
    /\ pc = "idle"
    /\ ev = NoEv
    /\ ro = NoRo
    /\ h = NoH

(* new_state = _make_move(game_state, move) for a move of get_legal_moves, *)
(* as the searches do on the state at the end of the path                  *)
MakeMove ==
    /\ UNCHANGED <<run, tree>>
    /\ pc = "idle"
    /\ ro = NoRo
    /\ Len(stack) <= MaxDepth
    /\ \E move \in Range(get_legal_moves(heap[top])) :
          LET r == _make_move(heap, top, move, Fresh)
          IN /\ heap' = r.heap
             /\ stack' = Append(stack, r.ref)
             /\ op' = [name |-> "_make_move", src |-> top, dst |-> r.ref,
                       move |-> move, pre |-> heap[top]]
    /\ h' = NoH
    /\ UNCHANGED <<pc, ev, ro>>

(* the search returns from the child: its state is dropped *)
Return ==
    /\ UNCHANGED <<run, tree>>
    /\ pc = "idle"
    /\ ro = NoRo
    /\ Len(stack) > 1
    /\ stack' = SubSeq(stack, 1, Len(stack) - 1)
    /\ heap' = IF top \in Range(stack')
               THEN heap
               ELSE [heap EXCEPT ![top] = NoObject]
    /\ op' = [name |-> "return", src |-> top]
    /\ h' = NoH
    /\ UNCHANGED <<pc, ev, ro>>

----------------------------------------------------------------------------
(* team42_A0/evaluation.py: evaluate_state and _get_space_value, statement *)
(* by statement, on the state at the end of the path                       *)

(* faulty variant: the reset is missing *)
reset_current_player_missing(game_state, current_p) == game_state

(* line 18: game_state.current_player = current_p *)
reset_current_player(game_state, current_p) ==
    [game_state EXCEPT !.current_player = current_p]

(* lines 4, 6 and 19: score_val + (p1_space - p2_space) / N, times N *)
evaluate_result(score_val, p1_space, p2_space, N) ==
    score_val * N + (p1_space - p2_space)

(* lines 4 and 13-14: score_val; current_p saved; current_player = 1 *)
EvalCall ==
    /\ UNCHANGED <<run, tree>>
    /\ pc = "idle"
    /\ ro = NoRo
    /\ ev' = [ref |-> top,
              score_val |-> heap[top].scores[1] - heap[top].scores[2],
              current_p |-> heap[top].current_player,
              p1_space |-> 0, p2_space |-> 0, pre |-> heap[top]]
    /\ heap' = [heap EXCEPT ![top].current_player = 1]
    /\ pc' = "p1"
    /\ op' = [name |-> "evaluate_state_call", src |-> top]
    /\ UNCHANGED <<stack, ro, h>>

(* lines 15-16: p1_space = len(player_squares()); current_player = 2.      *)
(* len(None) raises TypeError: the call is left with current_player = 1.   *)
EvalP1 ==
    /\ UNCHANGED <<run, tree>>
    /\ pc = "p1"
    /\ LET ps == player_squares(heap[ev.ref])
       IN IF ps.isNone
          THEN /\ pc' = "crashed"
               /\ op' = [name |-> "evaluate_state", src |-> ev.ref, pre |-> ev.pre,
                         raised |-> TRUE, p1_space |-> 0, p2_space |-> 0, value_N |-> 0]
               /\ UNCHANGED <<heap, ev>>
          ELSE /\ ev' = [ev EXCEPT !.p1_space = Len(ps.val)]
               /\ heap' = [heap EXCEPT ![ev.ref].current_player = 2]
               /\ pc' = "p2"
               /\ UNCHANGED op
    /\ UNCHANGED <<stack, ro, h>>

(* lines 17-19 and 6: p2_space; current_player reset; the value returned *)
EvalP2 ==
    /\ UNCHANGED <<run, tree>>
    /\ pc = "p2"
    /\ LET ps == player_squares(heap[ev.ref])
           p2_space == Len(ps.val)
       IN /\ heap' = [heap EXCEPT ![ev.ref] = reset_current_player(@, ev.current_p)]
          /\ op' = [name |-> "evaluate_state", src |-> ev.ref, pre |-> ev.pre,
                    raised |-> FALSE, p1_space |-> ev.p1_space, p2_space |-> p2_space,
                    value_N |-> evaluate_result(ev.score_val, ev.p1_space, p2_space,
                                                heap[ev.ref].board.N)]
          /\ ev' = NoEv
          /\ pc' = "idle"
    /\ UNCHANGED <<stack, ro, h>>

----------------------------------------------------------------------------
(* team42_A3_MCTS/simplified_simulation.py: the rollout of               *)
(* MCTSimplified.simulate and _simplified_make_move                      *)

CountEmpty(board) ==
    Cardinality({ k \in DOMAIN board.squares : board.squares[k] = empty })

(* faulty variant: the else is missing, player 1's square goes to both lists *)
_simplified_make_move_both(game_state, square) ==
    LET s1 == [game_state EXCEPT !.board = board_put(@, square, DUMMY_VALUE)]
        move_score == _move_score(s1.board, square)
        s2 == [s1 EXCEPT !.scores[s1.current_player] = @ + move_score]
        s3 == IF s2.current_player = 1
              THEN [s2 EXCEPT !.occupied_squares1 = @ \o <<square>>]
              ELSE s2
        s4 == [s3 EXCEPT !.occupied_squares2 = @ \o <<square>>]
    IN [s4 EXCEPT !.current_player = 3 - @]

(* _simplified_make_move works on the object it is given, no copy *)
_simplified_make_move(game_state, square) ==
    LET s1 == [game_state EXCEPT !.board = board_put(@, square, DUMMY_VALUE)]
        move_score == _move_score(s1.board, square)
        s2 == [s1 EXCEPT !.scores[s1.current_player] = @ + move_score]
        s3 == IF s2.current_player = 1
              THEN [s2 EXCEPT !.occupied_squares1 = @ \o <<square>>]
              ELSE [s2 EXCEPT !.occupied_squares2 = @ \o <<square>>]
    IN [s3 EXCEPT !.current_player = 3 - @]

(* lines 73-75, search_depth = 1: the copy, and n_moves = min(empty       *)
(* squares, round(1 * N ** 2)) *)
RolloutStart ==
    /\ UNCHANGED <<run, tree>>
    /\ pc = "idle"
    /\ ro = NoRo
    /\ Len(stack) <= MaxSimDepth + 1
    /\ LET game_state == heap[top]
           N == game_state.board.N
           empties == CountEmpty(game_state.board)
       IN /\ heap' = [heap EXCEPT ![Fresh] = game_state]
          /\ ro' = [ref |-> Fresh, steps |-> 0,
                    n_moves |-> IF empties < N * N THEN empties ELSE N * N]
    /\ op' = [name |-> "simulate_copy", src |-> top]
    /\ UNCHANGED <<stack, pc, ev, h>>

(* lines 76-84, one turn of the loop: the turn passes when the player has *)
(* no square (None counts as none), else a random square is played        *)
RolloutStep ==
    /\ UNCHANGED <<run, tree>>
    /\ ro # NoRo
    /\ ro.n_moves > 0
    /\ ro.steps < MaxRollout
    /\ LET game_state == heap[ro.ref]
           legal_squares == player_squares(game_state)
       IN IF legal_squares.isNone \/ legal_squares.val = <<>>
          THEN /\ heap' = [heap EXCEPT ![ro.ref].current_player = 3 - @]
               /\ op' = [name |-> "rollout_pass", src |-> ro.ref]
               /\ UNCHANGED ro
          ELSE \E i \in 1..Len(legal_squares.val) :
                 /\ heap' = [heap EXCEPT ![ro.ref] =
                               _simplified_make_move(@, legal_squares.val[i])]
                 /\ op' = [name |-> "_simplified_make_move", src |-> ro.ref,
                           square |-> legal_squares.val[i], pre |-> game_state]
                 /\ ro' = [ro EXCEPT !.n_moves = @ - 1, !.steps = @ + 1]
    /\ UNCHANGED <<stack, pc, ev, h>>

(* lines 86-96: the loop is left with n_moves = 0; the winner *)
RolloutEnd ==
    /\ UNCHANGED <<run, tree>>
    /\ ro # NoRo
    /\ ro.n_moves <= 0
    /\ LET game_state == heap[ro.ref]
           state_score == game_state.scores[1] - game_state.scores[2]
       IN op' = [name |-> "simulate", src |-> top,
                 result |-> IF state_score > 0 THEN 1
                            ELSE IF state_score < 0 THEN 2 ELSE 0]
    /\ heap' = [heap EXCEPT ![ro.ref] = NoObject]
    /\ ro' = NoRo
    /\ UNCHANGED <<stack, pc, ev, h>>

Next == MakeMove \/ Return \/ EvalCall \/ EvalP1 \/ EvalP2
        \/ RolloutStart \/ RolloutStep \/ RolloutEnd

Spec == Init /\ [][Next]_vars

----------------------------------------------------------------------------
(* The pruning of a node's moves: sudoku_heuristics(moves, game_state) on  *)
(* the state at the end of the path, as compute_best_move, the alpha-beta  *)
(* search and MCTSimplified.expand call it.  The callers hand it the legal *)
(* moves or a part of them; here the part without the value `drop`.  h     *)
(* records the call: the input, each rule applied to the input, the rules  *)
(* applied in turn, and the list returned.                                 *)

PruneRoots ==
    { Replay(InitialState(2, 3, "rows"), Line6, k) : k \in {20, 22, 26} }
    \cup { Replay(InitialState(2, 3, "classic"), Line6, k) : k \in {20, 22} }
    \cup { Replay(InitialState(2, 2, "rows"), Line4, k) : k \in {4, 9} }

InitH ==
    /\ run = NoRun
    /\ tree = NoTree
    /\ LineLegal(InitialState(2, 2, "rows"), Line4)
    /\ LineLegal(InitialState(2, 3, "rows"), Line6)
    /\ LineLegal(InitialState(2, 3, "classic"), Line6)
    /\ \E root \in PruneRoots :
          heap = [r \in Refs |-> IF r = 1 THEN root ELSE NoObject]
    /\ stack = <<1>>
    /\ op = NoOp
    /\ pc = "idle"
    /\ ev = NoEv
    /\ ro = NoRo
    /\ h = NoH

Prune ==
    /\ UNCHANGED <<run, tree>>
    /\ pc = "idle"
    /\ ro = NoRo
    /\ h = NoH
    /\ Len(stack) <= MaxPruneDepth + 1
    /\ \E drop \in 0..heap[top].board.N :
          LET game_state == heap[top]
              board == game_state.board
              moves == SelectSeq(get_legal_moves(game_state),
                                 LAMBDA mv : mv.value # drop)
              input == moves_dict(moves)
              only == only_squares_rule(input, board)
              hidden == hidden_twin_rule(only, board)
          IN h' = [called |-> TRUE, src |-> top, N |-> board.N,
                   moves |-> moves, input |-> input,
                   only |-> only,
                   hidden |-> hidden_twin_rule(input, board),
                   naked |-> naked_twin_rule(input, board),
                   only_hidden |-> hidden,
                   only_hidden_naked |-> naked_twin_rule(hidden, board),
                   out |-> sudoku_heuristics(moves, game_state)]
    /\ op' = [name |-> "sudoku_heuristics", src |-> top]
    /\ UNCHANGED <<heap, stack, pc, ev, ro>>

NextH == MakeMove \/ Return \/ Prune

SpecH == InitH /\ [][NextH]_vars

----------------------------------------------------------------------------
(* team42_A0/sudokuai.py and team42_A1/sudokuai.py: the depth-limited      *)
(* searches.  A float is kept exactly: whole part w, numerator f of the    *)
(* fraction f / N, and inf = -1, 0, 1 for -math.inf, finite, math.inf.     *)

E9 == 1000000000

float(value_N, N) == [inf |-> 0, w |-> value_N \div N, f |-> value_N % N]

math_inf == [inf |-> 1, w |-> 0, f |-> 0]

neg_math_inf == [inf |-> -1, w |-> 0, f |-> 0]

float_le(a, b) ==
    IF a.inf # b.inf
    THEN a.inf < b.inf
    ELSE \/ a.inf # 0
         \/ a.w < b.w
         \/ (a.w = b.w /\ a.f <= b.f)

(* max(a, b) and min(a, b) return a unless b is strictly better *)
py_max(a, b) == IF float_le(b, a) THEN a ELSE b

py_min(a, b) == IF float_le(a, b) THEN a ELSE b

(* evaluate_state as a function of a state with restricted placement: the  *)
(* current player is set and reset inside, the value is what is returned   *)
evaluate_state(game_state) ==
    LET p1_space == Len(player_squares([game_state EXCEPT !.current_player = 1]).val)
        p2_space == Len(player_squares([game_state EXCEPT !.current_player = 2]).val)
    IN float(evaluate_result(game_state.scores[1] - game_state.scores[2],
                             p1_space, p2_space, game_state.board.N),
             game_state.board.N)

(* the sentinels of _minimax, line 76 *)
minimax_start(is_maximizing) ==
    IF is_maximizing THEN [inf |-> 0, w |-> -E9, f |-> 0]
                     ELSE [inf |-> 0, w |-> E9, f |-> 0]

RECURSIVE _minimax(_, _, _)
RECURSIVE minimax_for(_, _, _, _, _)

(* the for loop of _minimax; loop holds the index i of the next move, the  *)
(* value so far and nodes, the number of states the search has evaluated   *)
(* or expanded                                                             *)
minimax_for(game_state, legal_moves, depth, is_maximizing, loop) ==
    IF loop.i > Len(legal_moves)
    THEN loop
    ELSE LET new_state == apply_move(game_state, legal_moves[loop.i])
             child == _minimax(new_state, depth - 1, ~is_maximizing)
             value == IF is_maximizing THEN py_max(loop.value, child.value)
                                       ELSE py_min(loop.value, child.value)
         IN minimax_for(game_state, legal_moves, depth, is_maximizing,
                        [i |-> loop.i + 1, value |-> value,
                         nodes |-> loop.nodes + child.nodes])

_minimax(game_state, depth, is_maximizing) ==
    LET legal_moves == get_legal_moves(game_state)
    IN IF depth = 0 \/ Len(legal_moves) = 0
       THEN [value |-> evaluate_state(game_state), nodes |-> 1]
       ELSE LET r == minimax_for(game_state, legal_moves, depth, is_maximizing,
                                 [i |-> 1, value |-> minimax_start(is_maximizing),
                                  nodes |-> 1])
            IN [value |-> r.value, nodes |-> r.nodes]

(* faulty variant: the cut is tested against the wrong bound *)
cutoff_swapped(value, alpha, beta, is_maximizing) ==
    IF is_maximizing THEN float_le(alpha, value) ELSE float_le(value, beta)

(* lines 82-83 and 91-92: if value >= beta: break / if value <= alpha: break *)
cutoff(value, alpha, beta, is_maximizing) ==
    IF is_maximizing THEN float_le(beta, value) ELSE float_le(value, alpha)

RECURSIVE _minimax_alphabeta(_, _, _, _, _)
RECURSIVE alphabeta_for(_, _, _, _, _)

(* the for loop of _minimax_alphabeta with its break; loop holds the index *)
(* i of the next move, value, alpha, beta and nodes                        *)
alphabeta_for(game_state, legal_moves, depth, is_maximizing, loop) ==
    IF loop.i > Len(legal_moves)
    THEN loop
    ELSE LET new_state == apply_move(game_state, legal_moves[loop.i])
             child == _minimax_alphabeta(new_state, depth - 1, loop.alpha, loop.beta,
                                         ~is_maximizing)
             value == IF is_maximizing THEN py_max(loop.value, child.value)
                                       ELSE py_min(loop.value, child.value)
             alpha == IF is_maximizing THEN py_max(loop.alpha, value) ELSE loop.alpha
             beta == IF is_maximizing THEN loop.beta ELSE py_min(loop.beta, value)
             next == [i |-> loop.i + 1, value |-> value, alpha |-> alpha,
                      beta |-> beta, nodes |-> loop.nodes + child.nodes]
         IN IF cutoff(value, alpha, beta, is_maximizing)
            THEN next
            ELSE alphabeta_for(game_state, legal_moves, depth, is_maximizing, next)

_minimax_alphabeta(game_state, depth, alpha, beta, is_maximizing) ==
    LET legal_moves == get_legal_moves(game_state)
    IN IF depth = 0 \/ Len(legal_moves) = 0
       THEN [value |-> evaluate_state(game_state), nodes |-> 1]
       ELSE LET r == alphabeta_for(game_state, legal_moves, depth, is_maximizing,
                                   [i |-> 1,
                                    value |-> IF is_maximizing THEN neg_math_inf
                                                               ELSE math_inf,
                                    alpha |-> alpha, beta |-> beta, nodes |-> 1])
            IN [value |-> r.value, nodes |-> r.nodes]

RECURSIVE sorted_reverse(_, _)

(* sorted(scores, key=scores.get, reverse=True) over the first k indices:  *)
(* by score, decreasing; the sort is stable, equal scores keep their order *)
sorted_reverse(scores, k) ==
    IF k = 0
    THEN <<>>
    ELSE LET prev == sorted_reverse(scores, k - 1)
             pos == Cardinality({ j \in 1..Len(prev) :
                                    float_le(scores[k], scores[prev[j]]) })
         IN SubSeq(prev, 1, pos) \o <<k>> \o SubSeq(prev, pos + 1, Len(prev))

(* team42_A1: lines 44-48, scores[i] of the move legal_moves[i] *)
A1_scores(game_state, depth) ==
    LET legal_moves == get_legal_moves(game_state)
        is_maximizing == game_state.current_player = 1
    IN [ i \in 1..Len(legal_moves) |->
           _minimax_alphabeta(apply_move(game_state, legal_moves[i]), depth - 1,
                              neg_math_inf, math_inf, ~is_maximizing).value ]

(* team42_A1: lines 51-55, the indices random.choice(best_moves) draws from *)
A1_best_moves(scores, is_maximizing) ==
    LET ranked_move_idxs == sorted_reverse(scores, Len(scores))
        best_score == IF is_maximizing
                      THEN scores[ranked_move_idxs[1]]
                      ELSE scores[ranked_move_idxs[Len(ranked_move_idxs)]]
    IN { idx \in 1..Len(scores) : scores[idx] = best_score }

(* team42_A0: lines 43-47, scores[i] of the move legal_moves[i] *)
A0_scores(game_state, depth) ==
    LET legal_moves == get_legal_moves(game_state)
        is_maximizing == game_state.current_player = 1
    IN [ i \in 1..Len(legal_moves) |->
           _minimax(apply_move(game_state, legal_moves[i]), depth - 1,
                    ~is_maximizing).value ]

(* team42_A0: lines 50-57, the indices the returned move can have: the    *)
(* head or the tail of the ranking, or any index when all scores are equal *)
A0_best_moves(scores, is_maximizing) ==
    IF Cardinality(Range(scores)) > 1
    THEN LET ranked_move_idxs == sorted_reverse(scores, Len(scores))
         IN { IF is_maximizing THEN ranked_move_idxs[1]
                               ELSE ranked_move_idxs[Len(ranked_move_idxs)] }
    ELSE 1..Len(scores)

(* the 4x4 game played to the full board *)
Line4End == Line4 \o << Ply(1, 2, 1), Ply(1, 3, 2) >>

(* roots of the searches: positions of the rows mode late in the game *)
SearchRoots ==
    { Replay(InitialState(2, 2, "rows"), Line4, k) : k \in {8, 10, 11} }
    \cup { Replay(InitialState(2, 2, "rows"), Line4End, 16) }
    \cup { Replay(InitialState(2, 3, "rows"), Line6, k) : k \in {28, 31} }

InitS ==
    /\ run = NoRun
    /\ tree = NoTree
    /\ LinesLegal
    /\ LineLegal(InitialState(2, 2, "rows"), Line4End)
    /\ \E root \in SearchRoots :
          heap = [r \in Refs |-> IF r = 1 THEN root ELSE NoObject]
    /\ stack = <<1>>
    /\ op = NoOp
    /\ pc = "idle"
    /\ ev = NoEv
    /\ ro = NoRo
    /\ h = NoH

(* op holds what a search has returned, until the next move is made *)
SearchReturned == op.name \in {"search", "_find_best_move"}

(* both searches called on the state at the end of the path, with the     *)
(* full window for the alpha-beta search                                   *)
Search ==
    /\ UNCHANGED <<run, tree>>
    /\ pc = "idle"
    /\ ~SearchReturned
    /\ Len(stack) <= MaxSearchPly + 1
    /\ \E depth \in 0..MaxSearchDepth, is_maximizing \in BOOLEAN :
          op' = [name |-> "search", src |-> top, depth |-> depth,
                 is_maximizing |-> is_maximizing,
                 minimax |-> _minimax(heap[top], depth, is_maximizing),
                 alphabeta |-> _minimax_alphabeta(heap[top], depth, neg_math_inf,
                                                  math_inf, is_maximizing)]
    /\ UNCHANGED <<heap, stack, pc, ev, ro, h>>

(* team42_A1 _find_best_move(game_state, depth), depth > 0: on an empty   *)
(* move list ranked_move_idxs[0] raises IndexError                         *)
A1_find_best_move ==
    /\ UNCHANGED <<run, tree>>
    /\ pc = "idle"
    /\ ~SearchReturned
    /\ Len(stack) <= MaxSearchPly + 1
    /\ \E depth \in 1..MaxSearchDepth :
          LET game_state == heap[top]
              legal_moves == get_legal_moves(game_state)
              is_maximizing == game_state.current_player = 1
              scores == A1_scores(game_state, depth)
          IN IF Len(legal_moves) = 0
             THEN op' = [name |-> "_find_best_move", driver |-> "A1", src |-> top,
                         depth |-> depth, raised |-> "IndexError"]
             ELSE \E idx \in A1_best_moves(scores, is_maximizing) :
                     op' = [name |-> "_find_best_move", driver |-> "A1", src |-> top,
                            depth |-> depth, raised |-> "", legal_moves |-> legal_moves,
                            is_maximizing |-> is_maximizing, scores |-> scores,
                            choices |-> A1_best_moves(scores, is_maximizing),
                            idx |-> idx, move |-> legal_moves[idx]]
    /\ UNCHANGED <<heap, stack, pc, ev, ro, h>>

(* team42_A0 _find_best_move(game_state, depth), depth > 0: on an empty   *)
(* move list random.choice raises IndexError                               *)
A0_find_best_move ==
    /\ UNCHANGED <<run, tree>>
    /\ pc = "idle"
    /\ ~SearchReturned
    /\ Len(stack) <= MaxSearchPly + 1
    /\ \E depth \in 1..MaxSearchDepth :
          LET game_state == heap[top]
              legal_moves == get_legal_moves(game_state)
              is_maximizing == game_state.current_player = 1
              scores == A0_scores(game_state, depth)
          IN IF Len(legal_moves) = 0
             THEN op' = [name |-> "_find_best_move", driver |-> "A0", src |-> top,
                         depth |-> depth, raised |-> "IndexError"]
             ELSE \E idx \in A0_best_moves(scores, is_maximizing) :
                     op' = [name |-> "_find_best_move", driver |-> "A0", src |-> top,
                            depth |-> depth, raised |-> "", legal_moves |-> legal_moves,
                            is_maximizing |-> is_maximizing, scores |-> scores,
                            choices |-> A0_best_moves(scores, is_maximizing),
                            idx |-> idx, move |-> legal_moves[idx]]
    /\ UNCHANGED <<heap, stack, pc, ev, ro, h>>

NextS == MakeMove \/ Return \/ Search \/ A1_find_best_move \/ A0_find_best_move

SpecS == InitS /\ [][NextS]_vars

----------------------------------------------------------------------------
(* team42_A3_MCTS_simplified/monte_carlo_tree.py and                       *)
(* team42_MCT/monte_carlo_tree.py: the search tree.  tree is the sequence  *)
(* of the Node objects in the order of their creation; a node is named by  *)
(* its index, the root is node 1 and parent = 0 stands for None.  The win  *)
(* tallies are kept doubled, so that the 0.5 of a draw is the integer 1.   *)

NoMove == [square |-> <<-1, -1>>, value |-> 0]

(* uct_score of a node: math.inf, 0, or the operands of the UCT formula    *)
(* (q / n) + EXPLORATION_FACTOR * math.sqrt(math.log(parent_n) / n)        *)
uct_inf == [kind |-> "inf"]
uct_zero == [kind |-> "zero"]
uct_value(q_x2, n, parent_n) ==
    [kind |-> "value", q_x2 |-> q_x2, n |-> n, parent_n |-> parent_n]
uct_ValueError == [kind |-> "ValueError"]

(* the unit of the fixed-point uct scores: 10^-8 *)
UctScale == 100000000

EXPLORATION_FACTOR == 2

(* math.sqrt(math.log(parent_n) / n) in units of 10^-8, rounded down, for  *)
(* parent_n (row) and n (column) from 1 to 12                              *)
exploration_term ==
    <<
       << 0, 0, 0, 0, 0, 0, 0, 0, 0, 0, 0, 0 >>,
       << 83255461, 58870501, 48067562, 41627730, 37232974, 33988899, 31467606, 29435250, 27751820, 26327688, 25102466, 24033781 >>,
       << 104814707, 74115190, 60514799, 52407353, 46874562, 42790425, 39616235, 37057595, 34938235, 33145320, 31602823, 30257399 >>,
       << 117741002, 83255461, 67977799, 58870501, 52655376, 48067562, 44501915, 41627730, 39247000, 37232974, 35500247, 33988899 >>,
       << 126863624, 89706128, 73244747, 63431812, 56735137, 51791857, 47949942, 44853064, 42287874, 40117800, 38250821, 36622373 >>,
       << 133856619, 94650923, 77282155, 66928309, 59862500, 54646736, 50593046, 47325461, 44618873, 42329179, 40359289, 38641077 >>,
       << 139495883, 98638485, 80537985, 69747941, 62384455, 56948955, 52724488, 49319242, 46498627, 44112471, 42059591, 40268992 >>,
       << 144202688, 101966699, 83255461, 72101344, 64489402, 58870501, 54503493, 50983349, 48067562, 45600894, 43478746, 41627730 >>,
       << 148230380, 104814707, 85580850, 74115190, 66290641, 60514799, 56025817, 52407353, 49410126, 46874562, 44693141, 42790425 >>,
       << 151742712, 107298301, 87608696, 75871356, 67861404, 61948703, 57353354, 53649150, 50580904, 47985259, 45752149, 43804348 >>,
       << 154851389, 109496467, 89403491, 77425694, 69251646, 63217814, 58528323, 54748233, 51617129, 48968308, 46689450, 44701745 >>,
       << 157635866, 111465390, 91011110, 78817933, 70496902, 64354573, 59580757, 55732695, 52545288, 49848837, 47529002, 45505555 >>
    >>

(* a uct_score as a number of units; q / n is q_x2 / (2 * n)               *)
uct_number(score) ==
    IF score.kind = "zero"
    THEN 0
    ELSE ((score.q_x2 * (UctScale \div 2)) \div score.n)
         + EXPLORATION_FACTOR * exploration_term[score.parent_n][score.n]

(* a < b of two uct scores (floats): math.inf is greater than every value  *)
uct_less(a, b) ==
    IF a.kind = "inf" THEN FALSE
    ELSE IF b.kind = "inf" THEN TRUE
    ELSE uct_number(a) < uct_number(b)

(* faulty variant: a new node starts with the score 0 *)
Node_score_zero(move, game_state) ==
    [move |-> move, game_state |-> game_state,
     player1_wins_x2 |-> 0, player2_wins_x2 |-> 0, visit_count |-> 0,
     uct_score |-> uct_zero, children |-> <<>>, parent |-> 0]

(* Node.__init__ *)
Node(move, game_state) ==
    [move |-> move, game_state |-> game_state,
     player1_wins_x2 |-> 0, player2_wins_x2 |-> 0, visit_count |-> 0,
     uct_score |-> uct_inf, children |-> <<>>, parent |-> 0]

(* faulty variant: the child is not told its parent *)
add_child_orphan(t, node, child) ==
    Append([t EXCEPT ![node].children = Append(@, Len(t) + 1)], child)

(* Node.add_child: the child is the next node created *)
add_child(t, node, child) ==
    LET id == Len(t) + 1
    IN Append([t EXCEPT ![node].children = Append(@, id)],
              [child EXCEPT !.parent = node])

(* MonteCarloTree.__init__ *)
MonteCarloTree(game_state) == << Node(NoMove, game_state) >>

(* faulty variant: the first child is taken whatever the scores *)
best_children_first(t, node, shuffled) == { t[node].children[1] }

(* the children traverse can move to from a node: best_node is the first   *)
(* child, in the order they are tried, whose uct_score is not less than    *)
(* that of any other (best_score < child.uct_score, from -math.inf).       *)
(* shuffled: the children are tried in a random order (random.sample), so  *)
(* every child with the greatest score can be the first; otherwise they    *)
(* are tried in the order of the list.                                     *)
best_children(t, node, shuffled) ==
    LET children == t[node].children
        greatest == { i \in 1..Len(children) :
                        \A j \in 1..Len(children) :
                            ~ uct_less(t[children[i]].uct_score,
                                       t[children[j]].uct_score) }
    IN IF shuffled
       THEN { children[i] : i \in greatest }
       ELSE { children[CHOOSE i \in greatest : \A j \in greatest : i <= j] }

RECURSIVE traverse_paths(_, _, _)

(* the paths traverse can take from a node down to a node without children *)
traverse_paths(t, node, shuffled) ==
    IF Len(t[node].children) = 0
    THEN { <<node>> }
    ELSE UNION { { <<node>> \o path : path \in traverse_paths(t, c, shuffled) } :
                 c \in best_children(t, node, shuffled) }

(* team42_MCT traverse, lines 52 and 54: curr_node.visit_count += 1 for    *)
(* every node of the path                                                  *)
MCT_traverse_counts(t, path) ==
    [ n \in 1..Len(t) |->
        IF n \in Range(path) THEN [t[n] EXCEPT !.visit_count = @ + 1] ELSE t[n] ]

(* _calculate_score of team42_A3_MCTS_simplified: n == 0 is tested before  *)
(* math.log(node.parent.visit_count), which raises ValueError on 0         *)
_calculate_score(t, node, player) ==
    IF t[node].parent = 0
    THEN uct_zero
    ELSE LET modifier == IF t[node].game_state.current_player = 1 THEN -1 ELSE 1
             q_x2 == IF player = 1 THEN modifier * t[node].player1_wins_x2
                                   ELSE modifier * t[node].player2_wins_x2
             n == t[node].visit_count
         IN IF n = 0
            THEN uct_inf
            ELSE IF t[t[node].parent].visit_count = 0
                 THEN uct_ValueError
                 ELSE uct_value(q_x2, n, t[t[node].parent].visit_count)

(* _calculate_score of team42_MCT: math.log is called before n == 0 is     *)
(* tested                                                                  *)
MCT_calculate_score(t, node, player) ==
    IF t[node].parent = 0
    THEN uct_zero
    ELSE LET q_x2 == IF player = 1
                     THEN IF t[node].game_state.current_player = 1
                          THEN -t[node].player1_wins_x2 ELSE t[node].player1_wins_x2
                     ELSE IF t[node].game_state.current_player = 1
                          THEN -t[node].player2_wins_x2 ELSE t[node].player2_wins_x2
             n == t[node].visit_count
         IN IF t[t[node].parent].visit_count = 0
            THEN uct_ValueError
            ELSE IF n = 0
                 THEN uct_inf
                 ELSE uct_value(q_x2, n, t[t[node].parent].visit_count)

(* faulty variant: a draw is tallied as a whole win of each player *)
tally_draw_whole(node, winner) ==
    IF winner = 1 THEN [node EXCEPT !.player1_wins_x2 = @ + 2]
    ELSE IF winner = 2 THEN [node EXCEPT !.player2_wins_x2 = @ + 2]
    ELSE IF winner = 0 THEN [node EXCEPT !.player1_wins_x2 = @ + 2,
                                         !.player2_wins_x2 = @ + 2]
    ELSE node

(* lines 131-139 of team42_A3_MCTS_simplified: the tallies of one node *)
tally(node, winner) ==
    IF winner = 1 THEN [node EXCEPT !.player1_wins_x2 = @ + 2]
    ELSE IF winner = 2 THEN [node EXCEPT !.player2_wins_x2 = @ + 2]
    ELSE IF winner = 0 THEN [node EXCEPT !.player1_wins_x2 = @ + 1,
                                         !.player2_wins_x2 = @ + 1]
    ELSE node

(* lines 113-118 of team42_MCT: no one wins on ties *)
MCT_tally(node, winner) ==
    IF winner = 1 THEN [node EXCEPT !.player1_wins_x2 = @ + 2]
    ELSE IF winner = 2 THEN [node EXCEPT !.player2_wins_x2 = @ + 2]
    ELSE node

RECURSIVE backpropagate(_, _, _, _)

(* backpropagate of team42_A3_MCTS_simplified from current_node upwards;   *)
(* raised when _calculate_score raises, the nodes above are then left as   *)
(* they were                                                               *)
backpropagate(t, current_node, winner, player) ==
    IF current_node = 0
    THEN [tree |-> t, raised |-> ""]
    ELSE LET visited == [t[current_node] EXCEPT !.visit_count = @ + 1]
             t1 == [t EXCEPT ![current_node] = tally(visited, winner)]
             score == _calculate_score(t1, current_node, player)
         IN IF score = uct_ValueError
            THEN [tree |-> t1, raised |-> "ValueError"]
            ELSE backpropagate([t1 EXCEPT ![current_node].uct_score = score],
                               t1[current_node].parent, winner, player)

RECURSIVE MCT_backpropagate_loop(_, _, _, _)

(* the while loop of backpropagate of team42_MCT *)
MCT_backpropagate_loop(t, current_node, winner, player) ==
    IF current_node = 0
    THEN [tree |-> t, raised |-> ""]
    ELSE LET t1 == [t EXCEPT ![current_node] = MCT_tally(@, winner)]
             score == MCT_calculate_score(t1, current_node, player)
         IN IF score = uct_ValueError
            THEN [tree |-> t1, raised |-> "ValueError"]
            ELSE MCT_backpropagate_loop([t1 EXCEPT ![current_node].uct_score = score],
                                        t1[current_node].parent, winner, player)

(* backpropagate of team42_MCT: the simulated node alone is counted *)
MCT_backpropagate(t, simulated_node, winner, player) ==
    MCT_backpropagate_loop([t EXCEPT ![simulated_node].visit_count = @ + 1],
                           simulated_node, winner, player)

RECURSIVE add_children(_, _, _, _)

(* for move in moves: child = Node(move, _make_move(game_state, move));    *)
(* selected_node.add_child(child)                                          *)
add_children(t, selected_node, moves, i) ==
    IF i > Len(moves)
    THEN t
    ELSE add_children(add_child(t, selected_node,
                                Node(moves[i], apply_move(t[selected_node].game_state,
                                                          moves[i]))),
                      selected_node, moves, i + 1)

(* expand of team42_MCT: a child for every legal move; the first child is  *)
(* returned, the node itself when there is no move                         *)
MCT_expand(t, selected_node) ==
    LET moves == get_legal_moves(t[selected_node].game_state)
        t1 == add_children(t, selected_node, moves, 1)
    IN [tree |-> t1,
        node |-> IF Len(moves) > 0 THEN t1[selected_node].children[1]
                                   ELSE selected_node]

(* the squares of a list of moves, each once, in the order they come up:   *)
(* the keys of moves_dict in _remove_duplicates                            *)
RECURSIVE move_squares(_, _)
move_squares(moves, i) ==
    IF i = 0
    THEN <<>>
    ELSE LET prev == move_squares(moves, i - 1)
         IN IF moves[i].square \in Range(prev)
            THEN prev
            ELSE Append(prev, moves[i].square)

(* _remove_duplicates: one move for every square, its value picked by      *)
(* random.choice among the values of the square; all the lists it can      *)
(* return                                                                  *)
_remove_duplicates(moves) ==
    LET squares == move_squares(moves, Len(moves))
        values(square) == { moves[i].value : i \in { j \in 1..Len(moves) :
                                                       moves[j].square = square } }
        all == UNION { values(squares[i]) : i \in 1..Len(squares) }
    IN { [ i \in 1..Len(squares) |-> Move(squares[i], pick[i]) ] :
           pick \in { f \in [1..Len(squares) -> all] :
                        \A i \in 1..Len(squares) : f[i] \in values(squares[i]) } }

RECURSIVE sorted_forward(_, _)

(* list.sort(key=...) over the first k indices: by score, increasing; the  *)
(* sort is stable                                                          *)
sorted_forward(scores, k) ==
    IF k = 0
    THEN <<>>
    ELSE LET prev == sorted_forward(scores, k - 1)
             pos == Cardinality({ j \in 1..Len(prev) :
                                    float_le(scores[prev[j]], scores[k]) })
         IN SubSeq(prev, 1, pos) \o <<k>> \o SubSeq(prev, pos + 1, Len(prev))

(* faulty variant: the order is increasing for either player *)
_get_promising_moves_forward(game_state, moves, count) ==
    LET scores == [ i \in 1..Len(moves) |->
                      evaluate_state(apply_move(game_state, moves[i])) ]
        order == sorted_forward(scores, Len(moves))
        kept == IF Len(order) < count THEN Len(order) ELSE count
    IN [ i \in 1..kept |-> moves[order[i]] ]

(* _get_promising_moves: the moves sorted by evaluate_state of their next  *)
(* state, best first for the player to move, and the first count of them   *)
_get_promising_moves(game_state, moves, count) ==
    LET scores == [ i \in 1..Len(moves) |->
                      evaluate_state(apply_move(game_state, moves[i])) ]
        order == IF game_state.current_player = 1
                 THEN sorted_reverse(scores, Len(moves))
                 ELSE sorted_forward(scores, Len(moves))
        kept == IF Len(order) < count THEN Len(order) ELSE count
    IN [ i \in 1..kept |-> moves[order[i]] ]

(* MCTSimplified.expand: all the results it can have *)
MCTSimplified_expand(t, selected_node) ==
    LET game_state == t[selected_node].game_state
        legal_moves == get_legal_moves(game_state)
        moves == IF selected_node = 1
                 THEN sudoku_heuristics(legal_moves, game_state)
                 ELSE legal_moves
    IN { LET promising == _get_promising_moves(game_state, unique, 3)
             t1 == add_children(t, selected_node, promising, 1)
         IN [tree |-> t1,
             node |-> IF Len(t1[selected_node].children) > 0
                      THEN t1[selected_node].children[1]
                      ELSE selected_node] :
         unique \in _remove_duplicates(moves) }

(* _get_best_move: the first child, among the root's children with visits, *)
(* with the greatest score: visit_count when is_robust, else               *)
(* player1_wins / visit_count; 0 when there is none (bestChild is None)    *)
_get_best_move(t, is_robust) ==
    LET children == t[1].children
        visited == { i \in 1..Len(children) : t[children[i]].visit_count # 0 }
        better(a, b) ==
            IF is_robust
            THEN t[a].visit_count > t[b].visit_count
            ELSE t[a].player1_wins_x2 * t[b].visit_count
                 > t[b].player1_wins_x2 * t[a].visit_count
    IN IF visited = {}
       THEN 0
       ELSE LET best == CHOOSE i \in visited :
                            /\ \A j \in visited : ~better(children[j], children[i])
                            /\ \A j \in visited :
                                  j < i => better(children[i], children[j])
            IN children[best]

(* MonteCarloTree.expand of team42_A3_MCTS_simplified: a child for every   *)
(* legal move, random.choice(selected_node.children) is returned, the node *)
(* itself when there is no move; all the results it can have               *)
MonteCarloTree_expand(t, selected_node) ==
    LET moves == get_legal_moves(t[selected_node].game_state)
        t1 == add_children(t, selected_node, moves, 1)
    IN IF Len(moves) > 0
       THEN { [tree |-> t1, node |-> c] : c \in Range(t1[selected_node].children) }
       ELSE { [tree |-> t1, node |-> selected_node] }

----------------------------------------------------------------------------
(* The runs of compute_best_move of the drivers, and the cycles of the two *)
(* trees.  run.pc is the statement the run is at; run.work is the search   *)
(* work done so far.                                                       *)

MinimaxDrivers == {"A0", "A1", "A2_withsaving", "A2_free_opponent"}
PrunedDrivers == {"A2_withsaving", "A2_free_opponent"}
MCTSDrivers == {"A3_MCTS", "A3_MCTS_simplified"}
(* select-expand-simulate-backpropagate cycles on a tree of its own: the   *)
(* MonteCarloTree of team42_MCT and of team42_A3_MCTS_simplified           *)
TreeCycles == {"MCT", "MonteCarloTree"}
Drivers == MinimaxDrivers \cup MCTSDrivers \cup TreeCycles

(* the 4x4 game with a rejected proposal of player 2 after seven moves *)
Line4TabooLate == SubSeq(Line4, 1, 7) \o << TabooPly(2, 2, 1), Ply(0, 2, 3) >>

(* a game that starts from a board with given values, which belong to      *)
(* neither player; given is the list board.squares                         *)
GivenBoardState(m, n, playmode, given) ==
    [InitialState(m, n, playmode) EXCEPT
        !.board.squares = [k \in 0..(m * n * m * n - 1) |-> given[k + 1]]]

(* 6x6, 2x3 blocks, 17 squares empty *)
Given6 ==
    << 5, 3, 1, 0, 6, 2,
       0, 0, 0, 5, 1, 3,
       0, 1, 5, 0, 0, 4,
       0, 0, 0, 0, 5, 1,
       0, 0, 2, 3, 4, 6,
       0, 4, 0, 0, 0, 5 >>

(* a game on Given6: two moves, then a proposal of each player that the    *)
(* referee rejects, since no solution of the board holds it                *)
Line6Given ==
    << Ply(0, 3, 4), Ply(5, 2, 3), TabooPly(1, 2, 4), TabooPly(5, 0, 1) >>

DriverRoots ==
    { Replay(InitialState(2, 2, "rows"), Line4End, k) : k \in {11, 14, 16} }
    \cup { Replay(InitialState(2, 2, "rows"), Line4TabooLate, 9) }
    \cup { Replay(InitialState(2, 3, "rows"), Line6, k) : k \in {28} }
    \cup { Replay(GivenBoardState(2, 3, "rows", Given6), Line6Given, 4) }

(* 4x4 boards with given values.  Given4Narrow: player 1 has one square,  *)
(* player 2 then squares with two values each.  Given4Wide: player 1 has   *)
(* four squares whose moves differ in score and in space.                  *)
Given4Narrow ==
    << 1, 0, 3, 4,
       3, 4, 1, 2,
       0, 1, 0, 3,
       0, 3, 0, 1 >>

Given4Wide ==
    << 0, 0, 0, 0,
       3, 4, 1, 0,
       2, 0, 0, 0,
       4, 3, 2, 1 >>

(* the states the drivers with a tree of MCTSimplified are called with     *)
(* besides DriverRoots                                                     *)
ExpandRoots ==
    { GivenBoardState(2, 2, "rows", Given4Narrow),
      GivenBoardState(2, 2, "rows", Given4Wide) }

(* save_data is None: nothing was loaded or saved *)
NoSaveData ==
    [curr_phase |-> 0, height |-> 0,
     broke_through_left |-> FALSE, broke_through_right |-> FALSE]

Run(driver, game_state) ==
    [driver |-> driver,
     loaded |-> NoSaveData, save_data |-> NoSaveData, saved |-> <<>>,
     pc |-> IF driver \in TreeCycles THEN "tree" ELSE "start",
     legal_moves |-> <<>>, proposals |-> <<>>, work |-> {}, pruned |-> <<>>,
     current_depth |-> 1, best_move |-> NoMove,
     our_player_id |-> game_state.current_player,
     cycles |-> 0, iteration |-> 0, selected |-> 0, winner |-> 0, raised |-> ""]

InitD ==
    /\ LinesLegal
    /\ LineLegal(InitialState(2, 2, "rows"), Line4End)
    /\ LineLegal(InitialState(2, 2, "rows"), Line4TabooLate)
    /\ LineLegal(GivenBoardState(2, 3, "rows", Given6), Line6Given)
    /\ \E driver \in Drivers :
          \E root \in DriverRoots
                      \cup (IF driver \in MCTSDrivers THEN ExpandRoots ELSE {}) :
             /\ heap = [r \in Refs |-> IF r = 1 THEN root ELSE NoObject]
             /\ run = Run(driver, root)
    /\ tree = NoTree
    /\ stack = <<1>>
    /\ op = NoOp
    /\ pc = "idle"
    /\ ev = NoEv
    /\ ro = NoRo
    /\ h = NoH

Raise(exception) == [run EXCEPT !.pc = "crashed", !.raised = exception]

(* team42_A1 line 23 and the like: legal_moves = get_legal_moves(game_state) *)
GetLegalMoves ==
    /\ run.pc = "start"
    /\ run' = [run EXCEPT !.pc = "first", !.legal_moves = get_legal_moves(heap[1])]
    /\ op' = [name |-> "run", step |-> "get_legal_moves"]
    /\ UNCHANGED <<heap, stack, pc, ev, ro, h, tree>>

(* faulty variant: the first proposal is not made *)
propose_move_dropped(proposals, move) == proposals

(* self.propose_move(move) *)
propose_move(proposals, move) == Append(proposals, move)

(* team42_A1 line 25 and the like:                                         *)
(* self.propose_move(random.choice(legal_moves)); random.choice raises     *)
(* IndexError on an empty list                                             *)
ProposeFirst ==
    /\ run.pc = "first"
    /\ IF Len(run.legal_moves) = 0
       THEN run' = Raise("IndexError")
       ELSE \E i \in 1..Len(run.legal_moves) :
               run' = [run EXCEPT
                         !.proposals = propose_move(@, run.legal_moves[i]),
                         !.pc = IF run.driver \in PrunedDrivers THEN "heuristics"
                                ELSE IF run.driver \in MCTSDrivers THEN "tree"
                                ELSE "search"]
    /\ op' = [name |-> "run", step |-> "propose_move"]
    /\ UNCHANGED <<heap, stack, pc, ev, ro, h, tree>>

(* team42_A2_withsaving lines 30-31: good_moves = sudoku_heuristics(...);  *)
(* pruned = [move for move in initial_moves if move not in good_moves]     *)
Heuristics ==
    /\ run.pc = "heuristics"
    /\ LET good_moves == sudoku_heuristics(run.legal_moves, heap[1])
       IN run' = [run EXCEPT
                    !.pruned = SelectSeq(run.legal_moves,
                                         LAMBDA move : move \notin Range(good_moves)),
                    !.work = @ \cup {"sudoku_heuristics"},
                    !.pc = IF run.driver = "A2_withsaving" THEN "load" ELSE "search"]
    /\ op' = [name |-> "run", step |-> "sudoku_heuristics"]
    /\ UNCHANGED <<heap, stack, pc, ev, ro, h, tree>>

(* team42_A2_withsaving line 37: save_data = self.load() *)
Load ==
    /\ run.pc = "load"
    /\ run' = [run EXCEPT !.work = @ \cup {"load"}, !.pc = "search"]
    /\ op' = [name |-> "run", step |-> "load"]
    /\ UNCHANGED <<heap, stack, pc, ev, ro, h, tree>>

(* wall_heuristic: filtered_moves is a sub-list of moves, and moves itself *)
(* when the filter leaves nothing; all the lists it can return             *)
wall_heuristic(moves) ==
    { SelectSeq(moves, LAMBDA move : move \in keep) :
        keep \in (SUBSET Range(moves)) \ {{}} } \cup { moves }

(* wall_heuristic of team42_A2, the one with the signature                 *)
(* team42_A2_free_opponent calls: the moves of the middle column until the *)
(* player holds a square of the middle row, then the moves of the wall row *)
(* right of the middle, then of the wall row, then of the rows beyond it,  *)
(* and moves itself when the filter leaves nothing                         *)
A2_wall_heuristic(moves, game_state) ==
    LET N == game_state.board.N
        board_middle == N \div 2
        first == game_state.current_player = 1
        rows == { square[1] : square \in
                    Range(IF first THEN game_state.occupied_squares1
                          ELSE game_state.occupied_squares2) }
        occupied_height ==
            IF rows = {} THEN (IF first THEN 0 ELSE N)
            ELSE IF first THEN CHOOSE r \in rows : \A q \in rows : q <= r
            ELSE CHOOSE r \in rows : \A q \in rows : q >= r
        towards_middle == IF first THEN occupied_height < board_middle
                          ELSE occupied_height > board_middle
        column == SelectSeq(moves, LAMBDA move : move.square[2] = board_middle)
        height == IF first
                  THEN (IF occupied_height < board_middle THEN occupied_height
                        ELSE board_middle)
                  ELSE (IF occupied_height > board_middle THEN occupied_height
                        ELSE board_middle)
        right == SelectSeq(moves, LAMBDA move : /\ move.square[1] = height
                                                /\ move.square[2] > board_middle)
        wall == SelectSeq(moves, LAMBDA move : move.square[1] = height)
        beyond == SelectSeq(moves, LAMBDA move : IF first THEN move.square[1] > height
                                                 ELSE move.square[1] < height)
        filtered_moves ==
            IF towards_middle /\ Len(column) # 0 THEN column
            ELSE IF Len(right) # 0 THEN right
            ELSE IF Len(wall) # 0 THEN wall
            ELSE beyond
    IN IF Len(filtered_moves) = 0 THEN moves ELSE filtered_moves

(* _find_best_move of the pruned drivers: good_moves, and the moves        *)
(* good_moves[random.choice(best_moves)] can be; best_moves holds the      *)
(* indices of the best score, whichever the scores are                     *)
pruned_good_moves(driver, game_state, pruned) ==
    { SelectSeq(initial_moves, LAMBDA move : move \notin Range(pruned)) :
        initial_moves \in
            IF driver = "A2_free_opponent"
            THEN { A2_wall_heuristic(get_legal_moves(game_state), game_state) }
            ELSE wall_heuristic(get_legal_moves(game_state)) }

(* the moves _find_best_move(game_state, current_depth) can return, and    *)
(* whether it can raise IndexError on an empty candidate list              *)
find_best_move_results(driver, game_state, depth, pruned) ==
    LET legal_moves == get_legal_moves(game_state)
        is_maximizing == game_state.current_player = 1
    IN IF driver = "A0"
       THEN [raises |-> Len(legal_moves) = 0,
             moves |-> { legal_moves[i] :
                         i \in A0_best_moves(A0_scores(game_state, depth),
                                             is_maximizing) }]
       ELSE IF driver = "A1"
       THEN [raises |-> Len(legal_moves) = 0,
             moves |-> IF Len(legal_moves) = 0 THEN {}
                       ELSE { legal_moves[i] :
                              i \in A1_best_moves(A1_scores(game_state, depth),
                                                  is_maximizing) }]
       ELSE [raises |-> <<>> \in pruned_good_moves(driver, game_state, pruned),
             moves |-> UNION { Range(good_moves) :
                               good_moves \in pruned_good_moves(driver, game_state, pruned) }]

(* the loop of the minimax drivers: _find_best_move(game_state,            *)
(* current_depth, ...)                                                     *)
FindBestMove ==
    /\ run.pc = "search"
    /\ run.current_depth <= MaxSearchDepth
    /\ LET r == find_best_move_results(run.driver, heap[1], run.current_depth,
                                       run.pruned)
       IN \/ /\ r.raises
             /\ run' = [Raise("IndexError") EXCEPT !.work = @ \cup {"minimax"}]
          \/ \E move \in r.moves :
                run' = [run EXCEPT !.best_move = move, !.pc = "propose",
                                   !.work = @ \cup {"minimax"}]
    /\ op' = [name |-> "run", step |-> "_find_best_move"]
    /\ UNCHANGED <<heap, stack, pc, ev, ro, h, tree>>

(* self.propose_move(best_move); current_depth += 1 *)
ProposeBestMove ==
    /\ run.pc = "propose"
    /\ run' = [run EXCEPT !.proposals = propose_move(@, run.best_move),
                          !.current_depth = @ + 1, !.pc = "search"]
    /\ op' = [name |-> "run", step |-> "propose_move"]
    /\ UNCHANGED <<heap, stack, pc, ev, ro, h, tree>>

(* MCT = MCTSimplified(game_state), or MonteCarloTree(game_state): the     *)
(* root node holds the game state of the run.  The drivers then simulate   *)
(* the root; a cycle starts with the selection.                            *)
CreateTree ==
    /\ run.pc = "tree"
    /\ tree' = MonteCarloTree(heap[1])
    /\ run' = [run EXCEPT !.selected = 1,
                          !.pc = IF run.driver \in TreeCycles THEN "traverse"
                                                             ELSE "simulate"]
    /\ op' = [name |-> "run", step |-> "MonteCarloTree"]
    /\ UNCHANGED <<heap, stack, pc, ev, ro, h>>

(* selected_node = MCT.traverse(): team42_MCT counts the visit of every    *)
(* node on the way                                                         *)
Traverse ==
    /\ run.pc = "traverse"
    /\ run.cycles < (IF run.driver \in TreeCycles THEN MaxTreeCycles ELSE MaxCycles)
    /\ \E path \in traverse_paths(tree, 1, run.driver # "MCT") :
          /\ tree' = IF run.driver = "MCT" THEN MCT_traverse_counts(tree, path)
                                           ELSE tree
          /\ run' = [run EXCEPT !.selected = path[Len(path)], !.pc = "expand",
                                !.work = @ \cup {"traverse"}]
          /\ op' = [name |-> "traverse", pre |-> tree, path |-> path]
    /\ UNCHANGED <<heap, stack, pc, ev, ro, h>>

(* all the results of expand on the selected node, by the class of the tree *)
expand_results(driver, t, selected_node) ==
    IF driver \in MCTSDrivers
    THEN MCTSimplified_expand(t, selected_node)
    ELSE IF driver = "MCT"
         THEN { MCT_expand(t, selected_node) }
         ELSE MonteCarloTree_expand(t, selected_node)

(* if selected_node.visit_count > 0: selected_node = MCT.expand(selected_node) *)
Expand ==
    /\ run.pc = "expand"
    /\ IF tree[run.selected].visit_count = 0
       THEN /\ run' = [run EXCEPT !.pc = "simulate"]
            /\ op' = [name |-> "run", step |-> "not expanded"]
            /\ UNCHANGED tree
       ELSE \E r \in expand_results(run.driver, tree, run.selected) :
               /\ tree' = r.tree
               /\ run' = [run EXCEPT !.selected = r.node, !.pc = "simulate",
                                     !.work = @ \cup {"expand"}]
               /\ op' = [name |-> "expand", pre |-> tree, node |-> run.selected,
                         returned |-> r.node]
    /\ UNCHANGED <<heap, stack, pc, ev, ro, h>>

(* monte_carlo_tree.py simulate, Condition 2: current_game_state is the    *)
(* node's own game state until the first move is made, so a node whose     *)
(* player to move has no legal move gets its current_player switched in    *)
(* place; MCTSimplified.simulate works on a deepcopy                       *)
simulate_game_state(driver, game_state) ==
    IF driver \in TreeCycles /\ get_legal_moves(game_state) = <<>>
    THEN [game_state EXCEPT !.current_player = 3 - @]
    ELSE game_state

(* the winners a simulation can return.  monte_carlo_tree.py simulate: the  *)
(* score difference decides when neither player can move.                  *)
(* MCTSimplified.simulate: n_moves is 0 on a board without empty squares   *)
(* and the score difference decides.  Otherwise the random playout is left *)
(* open.                                                                   *)
simulate_winners(driver, game_state) ==
    LET other == [game_state EXCEPT !.current_player = 3 - @]
        N == game_state.board.N
        score_difference == game_state.scores[1] - game_state.scores[2]
        decided == IF driver \in TreeCycles
                   THEN get_legal_moves(game_state) = <<>>
                        /\ get_legal_moves(other) = <<>>
                   ELSE \A square \in AllSquares(N) :
                           board_get(game_state.board, square) # empty
    IN IF decided
       THEN { IF score_difference > 0 THEN 1
              ELSE IF score_difference < 0 THEN 2 ELSE 0 }
       ELSE {0, 1, 2}

(* result = MCT.simulate(selected_node) *)
Simulate ==
    /\ run.pc = "simulate"
    /\ \E winner \in simulate_winners(run.driver, tree[run.selected].game_state) :
          run' = [run EXCEPT !.winner = winner, !.pc = "backpropagate",
                             !.work = @ \cup {"simulate"}]
    /\ tree' = [tree EXCEPT ![run.selected].game_state =
                                simulate_game_state(run.driver, @)]
    /\ op' = [name |-> "run", step |-> "simulate"]
    /\ UNCHANGED <<heap, stack, pc, ev, ro, h>>

(* MCT.backpropagate(selected_node, result, our_player_id) *)
Backpropagate ==
    /\ run.pc = "backpropagate"
    /\ LET r == IF run.driver = "MCT"
                THEN MCT_backpropagate(tree, run.selected, run.winner,
                                       run.our_player_id)
                ELSE backpropagate(tree, run.selected, run.winner,
                                   run.our_player_id)
       IN /\ tree' = r.tree
          /\ run' = IF r.raised # ""
                    THEN Raise(r.raised)
                    ELSE [run EXCEPT !.cycles = @ + 1,
                                     !.work = @ \cup {"backpropagate"},
                                     !.pc = IF run.driver \in TreeCycles
                                               \/ run.cycles = 0
                                            THEN "traverse" ELSE "best_move"]
          /\ op' = [name |-> "backpropagate", pre |-> tree, node |-> run.selected,
                    winner |-> run.winner, driver |-> run.driver,
                    raised |-> r.raised]
    /\ UNCHANGED <<heap, stack, pc, ev, ro, h>>

(* team42_A3_MCTS lines 48-53: every fifth iteration                       *)
(* self.propose_move(_get_best_move(MCT, False)); team42_A3_MCTS_simplified*)
(* lines 45-46: every iteration.  bestChild.move raises AttributeError     *)
(* when bestChild is None.                                                 *)
GetBestMove ==
    /\ run.pc = "best_move"
    /\ LET bestChild == _get_best_move(tree, FALSE)
       IN IF run.driver = "A3_MCTS" /\ run.iteration % 5 # 0
          THEN /\ run' = [run EXCEPT !.iteration = @ + 1, !.pc = "traverse"]
               /\ op' = [name |-> "run", step |-> "no proposal"]
          ELSE /\ IF bestChild = 0
                  THEN run' = Raise("AttributeError")
                  ELSE run' = [run EXCEPT
                                 !.proposals = propose_move(@, tree[bestChild].move),
                                 !.iteration = @ + 1, !.pc = "traverse"]
               /\ op' = [name |-> "run", step |-> "_get_best_move"]
    /\ UNCHANGED <<heap, stack, pc, ev, ro, h, tree>>

NextD ==
    \/ GetLegalMoves \/ ProposeFirst \/ Heuristics \/ Load
    \/ FindBestMove \/ ProposeBestMove
    \/ CreateTree \/ Traverse \/ Expand \/ Simulate \/ Backpropagate \/ GetBestMove

SpecD == InitD /\ [][NextD]_vars

----------------------------------------------------------------------------------
(* The simulations of the trees, one turn of their loops at a time.        *)
(* heap[1] is selected_node.game_state; ro is the frame of simulate:       *)
(* ro.ref the object current_game_state (game_state) refers to.            *)

(* search_depth in quarters: the default 1, and 0.5, 0.25 *)
SearchDepths_x4 == {4, 2, 1}

(* round(search_depth * game_state.board.N ** 2); the product is a whole   *)
(* number for the even N of the boards used                                *)
move_budget(search_depth_x4, N) == (search_depth_x4 * N * N) \div 4

(* a solved 4x4 grid, rows of blocks of 2x2 *)
Grid4 == << <<1, 2, 3, 4>>, <<3, 4, 1, 2>>, <<2, 1, 4, 3>>, <<4, 3, 2, 1>> >>

(* a game that starts from a board with given values: Grid4 without the    *)
(* squares of holes; the given squares are occupied by neither player      *)
GivenState(playmode, holes) ==
    [InitialState(2, 2, playmode) EXCEPT
        !.board.squares = [k \in 0..15 |->
                              IF <<k \div 4, k % 4>> \in holes
                              THEN empty
                              ELSE Grid4[(k \div 4) + 1][(k % 4) + 1]]]

(* the states simulate is called with: late positions of the 4x4 game, the *)
(* full board, and boards with given values where only inner squares are   *)
(* empty, in both play modes                                               *)
SimRoots ==
    { Replay(InitialState(2, 2, "rows"), Line4End, k) : k \in {11, 12, 14, 16} }
    \cup { Replay(InitialState(2, 2, "rows"), Line4TabooLate, 9) }
    \cup { GivenState(playmode, {<<1, 1>>, <<2, 2>>}) :
              playmode \in {"rows", "classic"} }
    \cup { GivenState("rows", {<<0, 0>>, <<1, 1>>, <<2, 2>>}) }

SimKinds == {"MonteCarloTree", "MCTSimplified"}

InitM ==
    /\ LinesLegal
    /\ LineLegal(InitialState(2, 2, "rows"), Line4End)
    /\ LineLegal(InitialState(2, 2, "rows"), Line4TabooLate)
    /\ \E root \in SimRoots :
          heap = [r \in Refs |-> IF r = 1 THEN root ELSE NoObject]
    /\ stack = <<1>>
    /\ op = NoOp
    /\ pc = "idle"
    /\ ev = NoEv
    /\ ro = NoRo
    /\ h = NoH
    /\ run = NoRun
    /\ tree = NoTree

(* the winner of a score *)
winner_of(positive, negative) ==
    IF positive THEN 1 ELSE IF negative THEN 2 ELSE 0

(* faulty variant: both players are marked at once *)
mark_out_of_moves_both(frame, current_player) ==
    [frame EXCEPT !.player1_out_of_moves = TRUE, !.player2_out_of_moves = TRUE]

(* monte_carlo_tree.py lines 110-114: the player without legal moves is    *)
(* marked as unable to move                                                *)
mark_out_of_moves(frame, current_player) ==
    IF current_player = 1
    THEN [frame EXCEPT !.player1_out_of_moves = TRUE]
    ELSE [frame EXCEPT !.player2_out_of_moves = TRUE]

(* simulate(selected_node) is called.  monte_carlo_tree.py lines 88-91:    *)
(* current_game_state = selected_node.game_state, the same object.         *)
(* simplified_simulation.py lines 73-75: game_state is a deepcopy, and     *)
(* n_moves the smaller of the empty squares and the budget.                *)
SimulateCall ==
    /\ ro = NoRo
    /\ \E kind \in SimKinds, search_depth_x4 \in SearchDepths_x4 :
          /\ kind = "MonteCarloTree" => search_depth_x4 = 4
          /\ LET game_state == heap[1]
                 N == game_state.board.N
                 empties == CountEmpty(game_state.board)
                 budget == move_budget(search_depth_x4, N)
             IN /\ ro' = [kind |-> kind, pc |-> "loop",
                          ref |-> IF kind = "MonteCarloTree" THEN 1 ELSE 2,
                          called_with |-> game_state,
                          player1_out_of_moves |-> FALSE,
                          player2_out_of_moves |-> FALSE,
                          search_depth_x4 |-> search_depth_x4,
                          n_moves |-> IF empties < budget THEN empties ELSE budget,
                          moves_made |-> 0, skipped |-> FALSE, result |-> 0]
                /\ heap' = IF kind = "MonteCarloTree"
                           THEN heap
                           ELSE [heap EXCEPT ![2] = game_state]
          /\ op' = [name |-> "simulate_call", kind |-> kind]
    /\ UNCHANGED <<stack, pc, ev, h, run, tree>>

(* monte_carlo_tree.py lines 92-119, one turn of while True that does not  *)
(* return: Condition 2 switches current_player of the object in place;     *)
(* without legal moves the player is marked; else a random legal move is   *)
(* made, and current_game_state is the new object _make_move returns       *)
SimulateTurn ==
    /\ ro # NoRo
    /\ ro.kind = "MonteCarloTree"
    /\ ro.pc = "loop"
    /\ ~ (ro.player1_out_of_moves /\ ro.player2_out_of_moves)
    /\ LET before == heap[ro.ref]
           switch == \/ before.current_player = 1 /\ ro.player1_out_of_moves
                     \/ before.current_player = 2 /\ ro.player2_out_of_moves
           current_game_state == IF switch
                                 THEN [before EXCEPT !.current_player = 3 - @]
                                 ELSE before
           legal_moves == get_legal_moves(current_game_state)
           switched == [heap EXCEPT ![ro.ref] = current_game_state]
       IN IF Len(legal_moves) = 0
          THEN /\ heap' = switched
               /\ ro' = mark_out_of_moves(ro, current_game_state.current_player)
               /\ op' = [name |-> "simulate_turn", switch |-> switch, moved |-> FALSE]
          ELSE \E i \in 1..Len(legal_moves) :
                  /\ heap' = [switched EXCEPT
                                 ![2] = apply_move(current_game_state, legal_moves[i])]
                  /\ ro' = [ro EXCEPT !.ref = 2, !.moves_made = @ + 1,
                                      !.skipped = @ \/ switch]
                  /\ op' = [name |-> "simulate_turn", switch |-> switch,
                            moved |-> TRUE]
    /\ UNCHANGED <<stack, pc, ev, h, run, tree>>

(* monte_carlo_tree.py lines 93-98, Condition 1: both players are out of   *)
(* moves; the score difference decides                                     *)
SimulateReturn ==
    /\ ro # NoRo
    /\ ro.kind = "MonteCarloTree"
    /\ ro.pc = "loop"
    /\ ro.player1_out_of_moves /\ ro.player2_out_of_moves
    /\ LET current_game_state == heap[ro.ref]
           score_difference == current_game_state.scores[1]
                               - current_game_state.scores[2]
       IN ro' = [ro EXCEPT !.pc = "returned",
                           !.result = winner_of(score_difference > 0,
                                                score_difference < 0)]
    /\ op' = [name |-> "simulate_return", kind |-> ro.kind]
    /\ UNCHANGED <<heap, stack, pc, ev, h, run, tree>>

(* simplified_simulation.py lines 76-84, one turn of while n_moves > 0:    *)
(* "if not legal_squares" holds of an empty list and of None; then the     *)
(* turn passes, and n_moves stays as it is                                 *)
SimplifiedTurn ==
    /\ ro # NoRo
    /\ ro.kind = "MCTSimplified"
    /\ ro.pc = "loop"
    /\ ro.n_moves > 0
    /\ LET game_state == heap[ro.ref]
           legal_squares == player_squares(game_state)
       IN IF legal_squares.isNone \/ legal_squares.val = <<>>
          THEN /\ heap' = [heap EXCEPT ![ro.ref].current_player = 3 - @]
               /\ ro' = [ro EXCEPT !.skipped = TRUE]
               /\ op' = [name |-> "simplified_turn", moved |-> FALSE]
          ELSE \E i \in 1..Len(legal_squares.val) :
                  /\ heap' = [heap EXCEPT ![ro.ref] =
                                 _simplified_make_move(@, legal_squares.val[i])]
                  /\ ro' = [ro EXCEPT !.n_moves = @ - 1, !.moves_made = @ + 1]
                  /\ op' = [name |-> "simplified_turn", moved |-> TRUE]
    /\ UNCHANGED <<stack, pc, ev, h, run, tree>>

(* simplified_simulation.py lines 86-96, after the loop: evaluate_state    *)
(* when n_moves > 0, else the score difference                             *)
SimplifiedReturn ==
    /\ ro # NoRo
    /\ ro.kind = "MCTSimplified"
    /\ ro.pc = "loop"
    /\ ~ (ro.n_moves > 0)
    /\ LET game_state == heap[ro.ref]
           zero == float(0, game_state.board.N)
           difference == game_state.scores[1] - game_state.scores[2]
       IN ro' = [ro EXCEPT
                   !.pc = "returned",
                   !.result =
                      IF ro.n_moves > 0
                      THEN winner_of(~ float_le(evaluate_state(game_state), zero),
                                     ~ float_le(zero, evaluate_state(game_state)))
                      ELSE winner_of(difference > 0, difference < 0)]
    /\ op' = [name |-> "simulate_return", kind |-> ro.kind]
    /\ UNCHANGED <<heap, stack, pc, ev, h, run, tree>>

NextM ==
    SimulateCall \/ SimulateTurn \/ SimulateReturn
        \/ SimplifiedTurn \/ SimplifiedReturn

SpecM == InitM /\ [][NextM]_vars

----------------------------------------------------------------------------
(* The saving variant, team42_A2_withsaving: the wall heuristic keeps the  *)
(* phase of its strategy in save_data, which the search threads through    *)
(* every call and the driver hands to save() after every iteration.        *)

(* line 17: the save data of a call without save data *)
NewSaveData ==
    [curr_phase |-> 1, height |-> 0,
     broke_through_left |-> FALSE, broke_through_right |-> FALSE]

(* wall_heuristic(moves, game_state, save_data) of team42_A2_withsaving:   *)
(* the filtered moves and the new save data                                *)
wall_heuristic_save(moves, game_state, save_data) ==
    LET N == game_state.board.N
        board_middle == N \div 2
        saved == IF save_data = NoSaveData THEN NewSaveData ELSE save_data
        own1 == Range(game_state.occupied_squares1)
        own2 == Range(game_state.occupied_squares2)
        Max(S) == CHOOSE r \in S : \A q \in S : q <= r
        Min(S) == CHOOSE r \in S : \A q \in S : q >= r
        column == SelectSeq(moves, LAMBDA move : move.square[2] = board_middle)
        Left(ms) == SelectSeq(ms, LAMBDA move : move.square[2] < board_middle)
        Right(ms) == SelectSeq(ms, LAMBDA move : move.square[2] > board_middle)
        (* phase B: the side of the wall row to build on, and whether the  *)
        (* wall is finished; own are the squares of the player, opp the    *)
        (* squares of the opponent                                         *)
        Side(middle_moves, own, opp) ==
            IF \E square \in own : square[2] < board_middle
            THEN IF Len(Left(middle_moves)) # 0
                 THEN [moves |-> Left(middle_moves), done |-> FALSE]
                 ELSE [moves |-> Right(middle_moves),
                       done |-> Len(Right(middle_moves)) = 0]
            ELSE IF \E square \in own : square[2] > board_middle
            THEN IF Len(Right(middle_moves)) # 0
                 THEN [moves |-> Right(middle_moves), done |-> FALSE]
                 ELSE [moves |-> Left(middle_moves),
                       done |-> Len(Left(middle_moves)) = 0]
            ELSE IF Cardinality({ square \in opp : square[2] < board_middle })
                      < Cardinality({ square \in opp : square[2] > board_middle })
                 THEN [moves |-> Left(middle_moves), done |-> FALSE]
                 ELSE [moves |-> Right(middle_moves), done |-> FALSE]
        (* player 1, lines 43-125 *)
        height1 == IF saved.curr_phase = 1
                   THEN (IF own1 = {} THEN 0 ELSE Max({ square[1] : square \in own1 }))
                   ELSE saved.height
        filtered_a == IF saved.curr_phase = 1 THEN column ELSE <<>>
        phase_a == IF saved.curr_phase = 1
                      /\ (height1 >= board_middle \/ Len(filtered_a) = 0)
                   THEN 2 ELSE saved.curr_phase
        has_last == Len(game_state.moves) > 0
        last_square == game_state.moves[Len(game_state.moves)].square
        left1 == \/ saved.broke_through_left
                 \/ (has_last /\ last_square[1] <= height1
                              /\ last_square[2] < board_middle)
        right1 == \/ saved.broke_through_right
                  \/ (has_last /\ last_square[1] <= height1
                               /\ last_square[2] > board_middle)
        middle1 == SelectSeq(moves, LAMBDA move : move.square[1] = height1)
        side1 == Side(middle1, own1, own2)
        b == IF phase_a # 2 THEN [moves |-> filtered_a, phase |-> phase_a]
             ELSE IF left1 /\ right1 THEN [moves |-> moves, phase |-> 4]
             ELSE IF left1
             THEN [moves |-> Right(middle1),
                   phase |-> IF Len(Right(middle1)) = 0 THEN 3 ELSE 2]
             ELSE IF right1
             THEN [moves |-> Left(middle1),
                   phase |-> IF Len(Left(middle1)) = 0 THEN 3 ELSE 2]
             ELSE [moves |-> side1.moves, phase |-> IF side1.done THEN 3 ELSE 2]
        d == IF b.phase # 3 THEN b
             ELSE IF ~left1 /\ ~right1
             THEN [moves |-> SelectSeq(moves, LAMBDA move : move.square[1] > height1),
                   phase |-> 3]
             ELSE IF ~left1
             THEN [moves |-> SelectSeq(moves, LAMBDA move :
                                \/ move.square[1] > height1
                                \/ move.square[2] > board_middle),
                   phase |-> 3]
             ELSE IF ~right1
             THEN [moves |-> SelectSeq(moves, LAMBDA move :
                                \/ move.square[1] > height1
                                \/ move.square[2] < board_middle),
                   phase |-> 3]
             ELSE [moves |-> b.moves, phase |-> 4]
        (* player 2, lines 129-196 *)
        occupied_height == IF own2 = {} THEN N
                           ELSE Min({ square[1] : square \in own2 })
        filtered_2a == IF occupied_height > board_middle THEN column ELSE <<>>
        wall2 == occupied_height <= board_middle \/ Len(filtered_2a) = 0
        height2 == IF ~wall2 THEN saved.height
                   ELSE IF occupied_height > board_middle THEN occupied_height
                   ELSE board_middle
        left2 == IF ~wall2 THEN saved.broke_through_left
                 ELSE \E square \in own1 : /\ square[1] >= height2
                                           /\ square[2] < board_middle
        right2 == IF ~wall2 THEN saved.broke_through_right
                  ELSE \E square \in own1 : /\ square[1] >= height2
                                            /\ square[2] > board_middle
        middle2 == SelectSeq(moves, LAMBDA move : move.square[1] = height2)
        filtered_2b == IF ~wall2 THEN filtered_2a
                       ELSE IF left2 /\ right2 THEN moves
                       ELSE IF left2 THEN Right(middle2)
                       ELSE IF right2 THEN Left(middle2)
                       ELSE Side(middle2, own2, own1).moves
        filtered_2d ==
            IF Len(filtered_2b) # 0 THEN filtered_2b
            ELSE IF ~left2 /\ ~right2
            THEN SelectSeq(moves, LAMBDA move : move.square[1] < height2)
            ELSE IF ~left2
            THEN SelectSeq(moves, LAMBDA move : \/ move.square[1] < height2
                                                \/ move.square[2] > board_middle)
            ELSE IF ~right2
            THEN SelectSeq(moves, LAMBDA move : \/ move.square[1] < height2
                                                \/ move.square[2] < board_middle)
            ELSE moves
        filtered_moves == IF game_state.current_player = 1 THEN d.moves
                          ELSE filtered_2d
    IN [moves |-> IF Len(filtered_moves) = 0 THEN moves ELSE filtered_moves,
        save_data |->
            IF game_state.current_player = 1
            THEN [curr_phase |-> d.phase, height |-> height1,
                  broke_through_left |-> left1, broke_through_right |-> right1]
            ELSE [curr_phase |-> saved.curr_phase, height |-> height2,
                  broke_through_left |-> left2, broke_through_right |-> right2]]

RECURSIVE saving_minimax_alphabeta(_, _, _, _, _, _, _, _)
RECURSIVE saving_alphabeta_for(_, _, _, _, _, _, _)

(* the for loops of _minimax_alphabeta, lines 120-139; loop holds the      *)
(* index i of the next move, value, alpha, beta and save_data              *)
saving_alphabeta_for(game_state, good_moves, our_player, depth, is_maximizing, pruned, loop) ==
    IF loop.i > Len(good_moves)
    THEN loop
    ELSE LET new_state == apply_move(game_state, good_moves[loop.i])
             child == saving_minimax_alphabeta(new_state, loop.save_data, our_player,
                                               depth - 1, loop.alpha, loop.beta,
                                               ~is_maximizing, pruned)
             value == IF is_maximizing THEN py_max(loop.value, child.value)
                                       ELSE py_min(loop.value, child.value)
             alpha == IF is_maximizing THEN py_max(loop.alpha, value) ELSE loop.alpha
             beta == IF is_maximizing THEN loop.beta ELSE py_min(loop.beta, value)
             next == [i |-> loop.i + 1, value |-> value, alpha |-> alpha,
                      beta |-> beta, save_data |-> child.save_data]
         IN IF cutoff(value, alpha, beta, is_maximizing)
            THEN next
            ELSE saving_alphabeta_for(game_state, good_moves, our_player, depth,
                                      is_maximizing, pruned, next)

(* _minimax_alphabeta(game_state, save_data, our_player, depth, alpha,     *)
(* beta, is_maximizing, pruned): the value and the save data               *)
saving_minimax_alphabeta(game_state, save_data, our_player, depth, alpha, beta, is_maximizing, pruned) ==
    IF depth = 0
    THEN [value |-> evaluate_state(game_state), save_data |-> save_data]
    ELSE LET Returned(r) == [value |-> r.value, save_data |-> r.save_data]
             (* lines 113-139, with good_moves of line 112 *)
             Searched(filtered, good_moves) ==
                 IF Len(good_moves) = 0
                 THEN [value |-> evaluate_state(game_state),
                       save_data |-> filtered.save_data]
                 ELSE Returned(saving_alphabeta_for(
                          game_state, good_moves, our_player, depth, is_maximizing,
                          SelectSeq(filtered.moves,
                                    LAMBDA move : move \notin Range(good_moves)),
                          [i |-> 1,
                           value |-> IF is_maximizing THEN neg_math_inf
                                                      ELSE math_inf,
                           alpha |-> alpha, beta |-> beta,
                           save_data |-> filtered.save_data]))
             (* lines 110-112, with initial_moves and save_data of 105-109 *)
             Pruned(filtered) ==
                 Searched(filtered,
                          sudoku_heuristics(
                              SelectSeq(filtered.moves,
                                        LAMBDA move : move \notin Range(pruned)),
                              game_state))
             Filtered(legal_moves) ==
                 Pruned(IF game_state.current_player = our_player
                        THEN wall_heuristic_save(legal_moves, game_state, save_data)
                        ELSE [moves |-> legal_moves, save_data |-> save_data])
         IN Filtered(get_legal_moves(game_state))

RECURSIVE saving_scores(_, _, _, _, _, _)

(* _find_best_move, lines 62-68: scores[i] = (score, save_data) of the     *)
(* move good_moves[i], and save_data, which every search takes from the    *)
(* search before it                                                        *)
saving_scores(game_state, good_moves, our_player, depth, pruned, loop) ==
    IF Len(loop.scores) = Len(good_moves)
    THEN loop
    ELSE LET Scored(r) ==
                 saving_scores(game_state, good_moves, our_player, depth, pruned,
                               [scores |-> Append(loop.scores,
                                                  [score |-> r.value,
                                                   save_data |-> r.save_data]),
                                save_data |-> r.save_data])
         IN Scored(saving_minimax_alphabeta(
                       apply_move(game_state, good_moves[Len(loop.scores) + 1]),
                       loop.save_data, our_player, depth - 1,
                       neg_math_inf, math_inf,
                       ~(game_state.current_player = 1), pruned))

(* _find_best_move(game_state, save_data, our_player, depth, pruned): what *)
(* it raises and the pairs it can return.  sorted compares the pairs       *)
(* (score, save_data); two pairs with equal scores and different save data *)
(* compare their dicts, which raises TypeError.  Line 75 pairs every best  *)
(* index with save_data, the variable the last search assigned.            *)
saving_find_best_move(game_state, save_data, our_player, depth, pruned) ==
    LET is_maximizing == game_state.current_player = 1
        (* lines 71-77, with the scores and the save_data of lines 62-68 *)
        Ranked(root, good_moves, r) ==
            LET scores == r.scores
                idxs == 1..Len(scores)
                best == IF is_maximizing
                        THEN { i \in idxs : \A j \in idxs :
                                   float_le(scores[j].score, scores[i].score) }
                        ELSE { i \in idxs : \A j \in idxs :
                                   float_le(scores[i].score, scores[j].score) }
                raised == IF Len(good_moves) = 0 THEN "IndexError"
                          ELSE IF \E i, j \in idxs :
                                     /\ scores[i].score = scores[j].score
                                     /\ scores[i].save_data # scores[j].save_data
                          THEN "TypeError"
                          ELSE ""
            IN [raised |-> raised,
                root |-> root.save_data,
                good_moves |-> good_moves,
                scores |-> scores,
                results |-> IF raised # "" THEN {}
                            ELSE { [move |-> good_moves[i],
                                    save_data |-> r.save_data] :
                                   i \in best }]
        (* lines 62-68 *)
        Scored(root, good_moves) ==
            Ranked(root, good_moves,
                   saving_scores(game_state, good_moves, our_player, depth, pruned,
                                 [scores |-> <<>>, save_data |-> root.save_data]))
        (* line 59 *)
        Pruned(root) ==
            Scored(root, SelectSeq(root.moves, LAMBDA move : move \notin Range(pruned)))
    IN Pruned(wall_heuristic_save(get_legal_moves(game_state), game_state, save_data))

(* 4x4 games of the rows mode that end with six, six and three empty       *)
(* squares; player 1, player 2 and player 1 are to move                    *)
LineSaving1 ==
    << Ply(0, 1, 3), Ply(3, 0, 4), Ply(1, 1, 4), Ply(3, 2, 3), Ply(0, 0, 2),
       Ply(3, 1, 1), Ply(0, 3, 1), Ply(2, 0, 3), Ply(1, 3, 3), Ply(3, 3, 2) >>

LineSaving2 ==
    << Ply(0, 0, 2), Ply(3, 1, 3), Ply(0, 3, 1), Ply(3, 2, 2), Ply(0, 2, 3),
       TabooPly(3, 0, 4), TabooPly(1, 1, 4), Ply(3, 0, 1), Ply(1, 0, 3),
       TabooPly(2, 1, 4), Ply(2, 1, 2), Ply(3, 3, 4), Ply(2, 2, 1) >>

LineSaving3 ==
    << Ply(0, 2, 4), Ply(3, 0, 2), Ply(0, 1, 1), Ply(2, 1, 3), TabooPly(1, 0, 3),
       Ply(2, 0, 1), Ply(0, 3, 2), Ply(1, 0, 4), Ply(1, 3, 3), Ply(3, 2, 3),
       Ply(0, 0, 3), Ply(3, 1, 4), Ply(2, 3, 4), Ply(3, 3, 1) >>

SavingRoots ==
    { Replay(InitialState(2, 2, "rows"), LineSaving1, 10),
      Replay(InitialState(2, 2, "rows"), LineSaving2, 13),
      Replay(InitialState(2, 2, "rows"), LineSaving3, 14) }
    \cup { Replay(InitialState(2, 2, "rows"), Line4End, k) : k \in {11, 14, 16} }

(* what load() can return: nothing, or save data of an earlier turn *)
LoadedSaveData ==
    { NoSaveData, NewSaveData,
      [curr_phase |-> 2, height |-> 2,
       broke_through_left |-> FALSE, broke_through_right |-> FALSE],
      [curr_phase |-> 3, height |-> 2,
       broke_through_left |-> TRUE, broke_through_right |-> FALSE] }

InitV ==
    /\ LineLegal(InitialState(2, 2, "rows"), Line4End)
    /\ LineLegal(InitialState(2, 2, "rows"), LineSaving1)
    /\ LineLegal(InitialState(2, 2, "rows"), LineSaving2)
    /\ LineLegal(InitialState(2, 2, "rows"), LineSaving3)
    /\ \E root \in SavingRoots :
          /\ heap = [r \in Refs |-> IF r = 1 THEN root ELSE NoObject]
          /\ run = Run("A2_withsaving", root)
    /\ tree = NoTree
    /\ stack = <<1>>
    /\ op = NoOp
    /\ pc = "idle"
    /\ ev = NoEv
    /\ ro = NoRo
    /\ h = NoH

(* line 37: save_data = self.load() *)
SavingLoad ==
    /\ run.pc = "load"
    /\ \E save_data \in LoadedSaveData :
          run' = [run EXCEPT !.loaded = save_data, !.save_data = save_data,
                             !.work = @ \cup {"load"}, !.pc = "search"]
    /\ op' = [name |-> "run", step |-> "load"]
    /\ UNCHANGED <<heap, stack, pc, ev, ro, h, tree>>

(* line 41: best_move, save_data = _find_best_move(game_state, save_data,  *)
(* our_player, current_depth, pruned)                                      *)
SavingFindBestMove ==
    /\ run.pc = "search"
    /\ run.current_depth <= MaxSavingDepth
    /\ \E r \in { saving_find_best_move(heap[1], run.save_data, run.our_player_id,
                                         run.current_depth, run.pruned) } :
          /\ IF r.raised # ""
             THEN run' = [Raise(r.raised) EXCEPT !.work = @ \cup {"minimax"}]
             ELSE \E result \in r.results :
                     run' = [run EXCEPT !.best_move = result.move,
                                        !.save_data = result.save_data,
                                        !.pc = "propose",
                                        !.work = @ \cup {"minimax"}]
          /\ op' = [name |-> "saving_find_best_move", depth |-> run.current_depth,
                    called_with |-> run.save_data, raised |-> r.raised,
                    root |-> r.root, good_moves |-> r.good_moves,
                    scores |-> r.scores, results |-> r.results]
    /\ UNCHANGED <<heap, stack, pc, ev, ro, h, tree>>

(* lines 42-45: self.propose_move(best_move); self.save(save_data);        *)
(* current_depth += 1                                                      *)
SavingPropose ==
    /\ run.pc = "propose"
    /\ run' = [run EXCEPT !.proposals = propose_move(@, run.best_move),
                          !.saved = Append(@, run.save_data),
                          !.current_depth = @ + 1, !.pc = "search"]
    /\ op' = [name |-> "run", step |-> "save"]
    /\ UNCHANGED <<heap, stack, pc, ev, ro, h, tree>>

NextV ==
    GetLegalMoves \/ ProposeFirst \/ Heuristics
        \/ SavingLoad \/ SavingFindBestMove \/ SavingPropose

SpecV == InitV /\ [][NextV]_vars

----------------------------------------------------------------------
(* C1: for every game state, get_legal_moves returns exactly the moves     *)
(* (square, value) with the square empty and allowed to the player (every  *)
(* unoccupied square without a restriction), the value in 1..N and absent  *)
(* from the square's row, column and block, and the pair not taboo; it     *)
(* returns the empty list, without raising, when there is none.  Stated    *)
(* for both versions of the function (team42_A2 and team42_A1).            *)
C1_LegalMovesExact ==
    \A r \in Allocated :
        /\ Range(get_legal_moves(heap[r])) = LegalMoveSet(heap[r])
        /\ ~ A1_get_legal_moves(heap[r]).raised
        /\ Range(A1_get_legal_moves(heap[r]).moves) = LegalMoveSet(heap[r])

(* C1, the team42_A2 version alone: exact, each move once *)
C1_A2_LegalMovesExact ==
    \A r \in Allocated :
        /\ Range(get_legal_moves(heap[r])) = LegalMoveSet(heap[r])
        /\ NoDuplicates(get_legal_moves(heap[r]))

(* C1, the team42_A1 version where the player is restricted: exact *)
C1_A1_RestrictedExact ==
    \A r \in Allocated :
        ~ player_squares(heap[r]).isNone =>
            /\ ~ A1_get_legal_moves(heap[r]).raised
            /\ A1_get_legal_moves(heap[r]).moves = get_legal_moves(heap[r])

(* C1: a state without a restriction that has legal moves *)
C1_WitnessUnrestricted ==
    player_squares(heap[top]).isNone /\ get_legal_moves(heap[top]) # <<>>

(* C1: a state without any legal move *)
C1_WitnessNoMoves ==
    pc = "idle" /\ get_legal_moves(heap[top]) = <<>> /\ LegalMoveSet(heap[top]) = {}

(* C2: _make_move leaves the state it is given as it was, and nothing done *)
(* later to the state it returned (moves, evaluation, rollouts) changes    *)
(* the states earlier on the path.                                         *)
C2_InputNeverMutated ==
    [][ /\ \A i \in 1..(Len(stack) - 1) : heap'[stack[i]] = heap[stack[i]]
        /\ Len(stack') > Len(stack) => heap'[top] = heap[top] ]_vars

(* C2: two moves deep, the last _make_move has left its input as it was *)
C2_Witness ==
    /\ Len(stack) >= 3
    /\ op.name = "_make_move"
    /\ heap[op.src] = op.pre
    /\ heap[op.dst] # op.pre

(* C3: the state returned by _make_move(s, m) holds m's value on m's       *)
(* square and s's value on every other square, s's history with m added,  *)
(* the mover's occupied squares with the square added, the other player's  *)
(* occupied squares, the taboo moves and the other player's score as in s, *)
(* and the other player to move.                                           *)
C3_MakeMoveResult ==
    op.name = "_make_move" =>
        LET s == op.pre
            t == heap[op.dst]
            m == op.move
            mover == s.current_player
        IN /\ \A c \in AllSquares(s.board.N) :
                 board_get(t.board, c) =
                     IF c = m.square THEN m.value ELSE board_get(s.board, c)
           /\ t.moves = Append(s.moves, m)
           /\ IF mover = 1
              THEN /\ t.occupied_squares1 = Append(s.occupied_squares1, m.square)
                   /\ t.occupied_squares2 = s.occupied_squares2
              ELSE /\ t.occupied_squares2 = Append(s.occupied_squares2, m.square)
                   /\ t.occupied_squares1 = s.occupied_squares1
           /\ t.taboo_moves = s.taboo_moves
           /\ t.scores[3 - mover] = s.scores[3 - mover]
           /\ t.current_player = 3 - mover

(* C3: a move of player 2 from a state that has a taboo move *)
C3_Witness ==
    /\ op.name = "_make_move"
    /\ op.pre.current_player = 2
    /\ op.pre.taboo_moves # <<>>
    /\ heap[op.dst].current_player = 1

(* C4: a move adds 0, 1, 3 or 7 to the mover's score when 0, 1, 2 or 3 of  *)
(* the square's row, column and block have no empty cell after it, and     *)
(* leaves the other player's score as it was.                              *)
C4_RegionScore ==
    op.name = "_make_move" =>
        LET s == op.pre
            t == heap[op.dst]
            mover == s.current_player
            bonus == <<0, 1, 3, 7>>
        IN /\ t.scores[mover] - s.scores[mover]
                 = bonus[CompletedRegions(t.board, op.move.square) + 1]
           /\ t.scores[3 - mover] = s.scores[3 - mover]

(* C4: a move that gained g *)
C4_Gain(g) ==
    /\ op.name = "_make_move"
    /\ heap[op.dst].scores[op.pre.current_player]
           - op.pre.scores[op.pre.current_player] = g

(* C4: a move that completes row, column and block *)
C4_Witness == C4_Gain(7)

(* C4: a move that completes one region *)
C4_WitnessOne == C4_Gain(1)

(* C4: a move that completes two regions on the board with 2x3 blocks *)
C4_WitnessTwo == C4_Gain(3) /\ op.pre.board.m # op.pre.board.n

(* C5: in every state, of the search and of a rollout, the two lists of    *)
(* occupied squares have no square in common, hold no square twice, and    *)
(* hold together exactly the squares that are not empty.                   *)
C5_Occupancy ==
    \A r \in Allocated :
        LET g == heap[r]
        IN /\ Range(g.occupied_squares1) \cap Range(g.occupied_squares2) = {}
           /\ NoDuplicates(g.occupied_squares1)
           /\ NoDuplicates(g.occupied_squares2)
           /\ Range(g.occupied_squares1) \cup Range(g.occupied_squares2)
                 = NonEmptySquares(g.board)

(* C5: a rollout state after two squares were played without values *)
C5_Witness ==
    /\ ro # NoRo
    /\ ro.steps >= 2
    /\ op.name = "_simplified_make_move"
    /\ Len(heap[ro.ref].moves) < Cardinality(NonEmptySquares(heap[ro.ref].board))

(* C6: applying a legal move gives a state with exactly one more occupied  *)
(* square, counted on the board and counted in the occupied-square lists.  *)
C6_SingleStepGrowth ==
    op.name = "_make_move" =>
        LET s == op.pre
            t == heap[op.dst]
        IN /\ Cardinality(NonEmptySquares(t.board))
                 = Cardinality(NonEmptySquares(s.board)) + 1
           /\ Len(t.occupied_squares1) + Len(t.occupied_squares2)
                 = Len(s.occupied_squares1) + Len(s.occupied_squares2) + 1

(* C6: a move made from a state without a restriction, 11 squares filled *)
C6_Witness ==
    /\ op.name = "_make_move"
    /\ player_squares(op.pre).isNone
    /\ Cardinality(NonEmptySquares(heap[op.dst].board)) = 12

(* C7: on the empty 4x4 board with player 1 to move there are 16 legal    *)
(* moves, 4 squares times 4 values; after any one of them one square is    *)
(* occupied and player 2 is to move; and the square of a move made is in   *)
(* no legal move of any later state.                                       *)
C7_EmptyBoardScenario ==
    LET start == InitialState(2, 2, "rows")
        later(i) == { stack[j] : j \in i..Len(stack) }
                    \cup (IF ro # NoRo THEN {ro.ref} ELSE {})
    IN /\ heap[stack[1]] = start =>
            /\ Len(get_legal_moves(start)) = 16
            /\ Range(get_legal_moves(start))
                  = [square : Range(Row(4, 0)), value : 1..4]
       /\ (Len(stack) >= 2 /\ heap[stack[1]] = start) =>
            /\ Cardinality(NonEmptySquares(heap[stack[2]].board)) = 1
            /\ Len(heap[stack[2]].occupied_squares1)
                  + Len(heap[stack[2]].occupied_squares2) = 1
            /\ (pc = "idle" => heap[stack[2]].current_player = 2)
            /\ \A i \in 2..Len(stack) : \A r \in later(i) :
                  \A mv \in Range(get_legal_moves(heap[r])) :
                      mv.square # heap[stack[i]].moves[Len(heap[stack[i]].moves)].square

(* C7: two moves after the empty 4x4 board, with legal moves left *)
C7_Witness ==
    /\ heap[stack[1]] = InitialState(2, 2, "rows")
    /\ Len(stack) = 3
    /\ get_legal_moves(heap[top]) # <<>>

(* C8: evaluate_state(s) is (scores[0] - scores[1]) + (p1_space -          *)
(* p2_space) / N, p_i_space the number of squares player i may play on,   *)
(* and the space term is within [-1, 1].                                   *)
C8_EvaluateValue ==
    (op.name = "evaluate_state" /\ ~ op.raised) =>
        LET s == op.pre
            N == s.board.N
            space(p) == Cardinality(AllowedSquares(s, p) \ NonEmptySquares(s.board))
        IN /\ op.value_N = (s.scores[1] - s.scores[2]) * N + (space(1) - space(2))
           /\ space(1) - space(2) <= N
           /\ space(2) - space(1) <= N

(* C8: a returned value on the 6x6 board whose space term is below -1 *)
C8_WitnessOutOfRange ==
    /\ op.name = "evaluate_state"
    /\ ~ op.raised
    /\ op.p2_space - op.p1_space > op.pre.board.N

(* C8, the value alone: the sum, without the range of the space term *)
C8_ValueFormula ==
    (op.name = "evaluate_state" /\ ~ op.raised) =>
        LET s == op.pre
            N == s.board.N
            space(p) == Cardinality(AllowedSquares(s, p) \ NonEmptySquares(s.board))
        IN op.value_N = (s.scores[1] - s.scores[2]) * N + (space(1) - space(2))

(* C9: evaluate_state returns with the state as it was on entry, the       *)
(* player to move included, whichever player that was; inside the call     *)
(* the player to move is 1, then 2, and nothing else differs.              *)
C9_EvaluateRestores ==
    /\ (op.name = "evaluate_state" /\ ~ op.raised) => heap[op.src] = op.pre
    /\ pc = "p1" => heap[ev.ref] = [ev.pre EXCEPT !.current_player = 1]
    /\ pc = "p2" => heap[ev.ref] = [ev.pre EXCEPT !.current_player = 2]

(* C9: evaluate_state has returned on a state with player 1 to move *)
C9_Witness ==
    /\ op.name = "evaluate_state"
    /\ ~ op.raised
    /\ op.pre.current_player = 1
    /\ heap[op.src].current_player = 1

(* C9: evaluate_state has returned on a state with player 2 to move *)
C9_WitnessPlayer2 ==
    /\ op.name = "evaluate_state"
    /\ ~ op.raised
    /\ op.pre.current_player = 2
    /\ heap[op.src].current_player = 2

----------------------------------------------------------------------------
(* C10: pruning never enlarges the move set.  For every game state and     *)
(* every input move list, the list sudoku_heuristics returns holds only    *)
(* moves of the input; and for each of only_squares_rule, hidden_twin_rule *)
(* and naked_twin_rule, applied to the input or to the result of the rule  *)
(* before it, every square's candidate set after the rule is a subset of   *)
(* its candidate set before, and no square is added.                       *)
Shrinks(before, after) ==
    /\ DOMAIN after.vals \subseteq DOMAIN before.vals
    /\ Range(after.keys) \subseteq Range(before.keys)
    /\ \A square \in DOMAIN after.vals : after.vals[square] \subseteq before.vals[square]

C10_PruningNeverEnlarges ==
    h.called =>
        /\ Range(h.out) \subseteq Range(h.moves)
        /\ Shrinks(h.input, h.only)
        /\ Shrinks(h.input, h.hidden)
        /\ Shrinks(h.input, h.naked)
        /\ Shrinks(h.only, h.only_hidden)
        /\ Shrinks(h.only_hidden, h.only_hidden_naked)

(* C10: a call on the 6x6 board in which only_squares_rule and, after it,  *)
(* naked_twin_rule remove candidates, and the list returned is shorter     *)
(* than the input                                                          *)
C10_Witness ==
    /\ h.called
    /\ h.N = 6
    /\ h.only # h.input
    /\ h.only_hidden_naked # h.only_hidden
    /\ Len(h.out) < Len(h.moves)

(* C10: a call on the 6x6 board in which hidden_twin_rule removes a        *)
(* candidate only_squares_rule has left                                    *)
C10_WitnessHiddenTwin ==
    /\ h.called
    /\ h.N = 6
    /\ h.only_hidden # h.only

(* C10: a call on the 4x4 board, where only_squares_rule alone is applied *)
C10_WitnessSmallBoard ==
    /\ h.called
    /\ h.N = 4
    /\ h.only # h.input
    /\ h.out = moves_list(h.only)

(* C10: a call whose input lacks the value a rule finds forced *)
C10_WitnessForcedValueAbsent ==
    /\ h.called
    /\ \E square \in DOMAIN h.only.vals :
          h.only.vals[square] = {} /\ h.input.vals[square] # {}

----------------------------------------------------------------------------
(* C11, as stated: on a board with N <= 4 every pruning rule is skipped    *)
(* and sudoku_heuristics returns exactly the moves it was given.           *)
C11_SmallBoardNoOp ==
    (h.called /\ h.N <= 4) => Range(h.out) = Range(h.moves)

(* C11, amended: on a board with N <= 4 the two twin rules are skipped and *)
(* only_squares_rule is still applied: sudoku_heuristics returns the moves *)
(* only_squares_rule leaves, a subset of the moves it was given; on a      *)
(* board with N > 4 it returns what the three rules in turn leave.         *)
C11_SmallBoardOnlySquares ==
    h.called =>
        /\ h.N <= 4 => /\ h.out = moves_list(h.only)
                       /\ Range(h.out) \subseteq Range(h.moves)
        /\ h.N > 4 => h.out = moves_list(h.only_hidden_naked)

(* C11: a call on the 4x4 board in which only_squares_rule removes a move *)
(* and hidden_twin_rule, had it been applied, would have removed another  *)
C11_Witness ==
    /\ h.called
    /\ h.N = 4
    /\ Range(h.out) # Range(h.moves)
    /\ h.only_hidden # h.only

----------------------------------------------------------------------------
(* Valid completions of a board, by the rules of the game: every empty     *)
(* square gets a value of 1..N that is in no square of its row, column or  *)
(* block.                                                                  *)
Candidates(board, square) ==
    (1..board.N) \ { board_get(board, c) :
                       c \in RowCells(board.N, square) \cup ColCells(board.N, square)
                             \cup BlockCells(board, square) }

EmptySquares(board) == AllSquares(board.N) \ NonEmptySquares(board)

RECURSIVE Solvable(_)
Solvable(board) ==
    IF EmptySquares(board) = {} THEN TRUE
    ELSE LET square == CHOOSE c \in EmptySquares(board) :
                          \A d \in EmptySquares(board) :
                              Cardinality(Candidates(board, c))
                                  <= Cardinality(Candidates(board, d))
         IN \E value \in Candidates(board, square) :
                Solvable(board_put(board, square, value))

(* the input moves of the recorded call that are absent from its output *)
RemovedMoves == Range(h.moves) \ Range(h.out)

(* C12: pruning is sound.  When the board has a valid completion, every    *)
(* input move that sudoku_heuristics leaves out gives a board without a    *)
(* valid completion.                                                       *)
C12_PruningSound ==
    (h.called /\ Solvable(heap[h.src].board)) =>
        \A move \in RemovedMoves :
            ~ Solvable(board_put(heap[h.src].board, move.square, move.value))

(* C12, on the board with square blocks: the moves left out are unsolvable *)
C12_SoundSquareBlocks ==
    (h.called /\ heap[h.src].board.m = heap[h.src].board.n
              /\ Solvable(heap[h.src].board)) =>
        \A move \in RemovedMoves :
            ~ Solvable(board_put(heap[h.src].board, move.square, move.value))

(* C12: a call on a solvable 6x6 board that leaves out a move after which  *)
(* the board still has a valid completion                                  *)
C12_WitnessSolvableMoveRemoved ==
    /\ h.called
    /\ heap[h.src].board.N = 6
    /\ Solvable(heap[h.src].board)
    /\ \E move \in RemovedMoves :
          Solvable(board_put(heap[h.src].board, move.square, move.value))

(* C12: a call on a solvable 4x4 board that leaves out moves, each of      *)
(* which makes the board unsolvable                                        *)
C12_WitnessSquareBlocks ==
    /\ h.called
    /\ heap[h.src].board.N = 4
    /\ Solvable(heap[h.src].board)
    /\ RemovedMoves # {}

----------------------------------------------------------------------------
(* C13: for every state, every depth >= 0 and either maximizing flag,      *)
(* _minimax_alphabeta called with the window (-inf, +inf) returns the same *)
(* value as _minimax, over the same move generator and evaluator.          *)
C13_AlphaBetaAgrees ==
    op.name = "search" => op.alphabeta.value = op.minimax.value

(* the values of both searches are values of evaluate_state: neither the   *)
(* infinities nor the sentinels -1e9 and 1e9 are ever returned             *)
C13_ValueIsAnEvaluation ==
    op.name = "search" =>
        /\ op.minimax.value.inf = 0
        /\ op.minimax.value.w < E9
        /\ op.minimax.value.w > -E9

(* a search of depth 2 in which the alpha-beta search has cut branches off *)
C13_Witness ==
    /\ op.name = "search"
    /\ op.depth = 2
    /\ op.alphabeta.nodes < op.minimax.nodes
    /\ op.alphabeta.value = op.minimax.value

----------------------------------------------------------------------------
(* the indices of the moves whose score is the best one for the player to  *)
(* move: the maximum for player 1, the minimum for player 2                *)
BestIdxs(scores, is_maximizing) ==
    { i \in 1..Len(scores) :
        \A j \in 1..Len(scores) :
            IF is_maximizing THEN float_le(scores[j], scores[i])
                             ELSE float_le(scores[i], scores[j]) }

(* C14: _find_best_move returns a move whose depth-(d-1) minimax value is  *)
(* the maximum over the successors when player 1 is to move, the minimum   *)
(* when player 2 is; every move with that best value can be returned, and  *)
(* no move with a worse value is ever returned.                            *)
C14_RootMoveChoice ==
    (op.name = "_find_best_move" /\ op.raised = "") =>
        /\ op.idx \in BestIdxs(op.scores, op.is_maximizing)
        /\ op.choices = BestIdxs(op.scores, op.is_maximizing)

(* what holds of both drivers: the scores are the minimax values of the    *)
(* successors and the move returned has the best of them                   *)
C14_NeverWorse ==
    (op.name = "_find_best_move" /\ op.raised = "") =>
        /\ op.idx \in BestIdxs(op.scores, op.is_maximizing)
        /\ \A i \in 1..Len(op.legal_moves) :
              op.scores[i] = _minimax(apply_move(heap[op.src], op.legal_moves[i]),
                                      op.depth - 1, ~op.is_maximizing).value

(* what holds of team42_A1: every move with the best value can be returned *)
C14_A1_EveryBestMove ==
    (op.name = "_find_best_move" /\ op.raised = "" /\ op.driver = "A1") =>
        op.choices = BestIdxs(op.scores, op.is_maximizing)

(* team42_A0 with several best moves and a worse one: one move only can be *)
(* returned                                                                *)
C14_WitnessA0SingleChoice ==
    /\ op.name = "_find_best_move"
    /\ op.raised = ""
    /\ op.driver = "A0"
    /\ Cardinality(BestIdxs(op.scores, op.is_maximizing)) > 1
    /\ Cardinality(op.choices) = 1

(* team42_A1 with several best moves, returning one that is not the first *)
C14_WitnessA1Tie ==
    /\ op.name = "_find_best_move"
    /\ op.raised = ""
    /\ op.driver = "A1"
    /\ Cardinality(op.choices) > 1
    /\ Cardinality(op.choices) < Len(op.scores)
    /\ \E i \in op.choices : i < op.idx

----------------------------------------------------------------------------
(* C15: in every driver compute_best_move calls propose_move with a legal  *)
(* move of the root state before it starts any search work (minimax, tree  *)
(* expansion or simulation, heuristic pruning, load()): whenever search    *)
(* work has been done, a proposal has been made, and the first proposal is *)
(* a legal move of the root.                                               *)
C15_FirstMoveSafetyNet ==
    (run.driver \in MinimaxDrivers \cup MCTSDrivers /\ run.work # {}) =>
        /\ Len(run.proposals) >= 1
        /\ run.proposals[1] \in LegalMoveSet(heap[1])

(* the MCTS driver has simulated and backpropagated *)
C15_Witness ==
    /\ run.driver = "A3_MCTS_simplified"
    /\ {"simulate", "backpropagate", "expand"} \subseteq run.work
    /\ Len(run.proposals) >= 1

(* the saving variant has pruned, loaded and searched *)
C15_WitnessSaving ==
    /\ run.driver = "A2_withsaving"
    /\ run.work = {"sudoku_heuristics", "load", "minimax"}

(* on an empty move list no work is started at all *)
C15_WitnessNoMoves ==
    /\ run.driver \in MinimaxDrivers \cup MCTSDrivers
    /\ run.raised = "IndexError"
    /\ run.work = {}
    /\ run.proposals = <<>>

----------------------------------------------------------------------------
(* C16: every move passed to propose_move during a run of                  *)
(* compute_best_move, by the minimax drivers and by the MCTS drivers, is a *)
(* legal move of the root state: an empty allowed square, no conflict in   *)
(* row, column or block, and not a taboo pair of the root state.           *)
C16_ProposalsLegal ==
    run.driver \in Drivers =>
        \A i \in 1..Len(run.proposals) :
            /\ run.proposals[i] \in LegalMoveSet(heap[1])
            /\ run.proposals[i] \in Range(get_legal_moves(heap[1]))
            /\ run.proposals[i] \notin Range(heap[1].taboo_moves)

(* the MCTS driver has proposed the move of a child of the root, at a root *)
(* with a taboo pair that the rules would otherwise allow                  *)
C16_Witness ==
    /\ run.driver = "A3_MCTS"
    /\ Len(run.proposals) >= 2
    /\ \E move \in Range(heap[1].taboo_moves) :
          move \in LegalMoveSet([heap[1] EXCEPT !.taboo_moves = <<>>])

(* the pruned minimax driver has proposed the move of a search *)
C16_WitnessPruned ==
    /\ run.driver = "A2_free_opponent"
    /\ Len(run.proposals) >= 2
    /\ run.pruned # <<>>

----------------------------------------------------------------------------
(* C17: when the root search is entered on a state without legal moves,   *)
(* the core proposes nothing and rejects the call with a NoLegalMoves      *)
(* condition checked as a precondition; for compute_best_move and for      *)
(* _find_best_move.                                                        *)
C17_NoLegalMovesRejected ==
    /\ (run.driver \in MinimaxDrivers \cup MCTSDrivers
        /\ run.pc \notin {"start", "first"}
        /\ Len(get_legal_moves(heap[1])) = 0) =>
           /\ run.proposals = <<>>
           /\ run.raised = "NoLegalMoves"
    /\ (op.name = "_find_best_move" /\ Len(get_legal_moves(heap[op.src])) = 0) =>
           op.raised = "NoLegalMoves"

(* what holds: nothing is proposed, and no search work is done *)
C17_NothingProposed ==
    (run.driver \in MinimaxDrivers \cup MCTSDrivers
     /\ Len(get_legal_moves(heap[1])) = 0) =>
        /\ run.proposals = <<>>
        /\ run.work = {}
        /\ run.raised \in {"", "IndexError"}

(* what _find_best_move does on an empty move list *)
C17_FindBestMoveRaises ==
    (op.name = "_find_best_move" /\ Len(get_legal_moves(heap[op.src])) = 0) =>
        op.raised = "IndexError"

(* _find_best_move has been called on the full board *)
C17_WitnessFindBestMove ==
    /\ op.name = "_find_best_move"
    /\ Len(get_legal_moves(heap[op.src])) = 0

(* compute_best_move has failed on the full board *)
C17_Witness ==
    /\ run.driver = "A1"
    /\ Len(get_legal_moves(heap[1])) = 0
    /\ run.raised = "IndexError"

----------------------------------------------------------------------------
(* the nodes on the parent chain from a node up to and including the root *)
RECURSIVE Chain(_, _)
Chain(t, node) ==
    IF node = 0 THEN {} ELSE {node} \cup Chain(t, t[node].parent)

(* twice what an outcome adds to the win tally of a player *)
TallyGain_x2(winner, player) ==
    IF winner = player THEN 2 ELSE IF winner = 0 THEN 1 ELSE 0

(* the effect of one backpropagation the claim describes, from t to u *)
ChainCounted(t, u, node, winner) ==
    /\ Len(u) = Len(t)
    /\ \A n \in 1..Len(t) :
          IF n \in Chain(t, node)
          THEN /\ u[n].visit_count = t[n].visit_count + 1
               /\ u[n].player1_wins_x2 =
                     t[n].player1_wins_x2 + TallyGain_x2(winner, 1)
               /\ u[n].player2_wins_x2 =
                     t[n].player2_wins_x2 + TallyGain_x2(winner, 2)
          ELSE /\ u[n].visit_count = t[n].visit_count
               /\ u[n].player1_wins_x2 = t[n].player1_wins_x2
               /\ u[n].player2_wins_x2 = t[n].player2_wins_x2

(* C18: backpropagation from a simulated node with outcome w increases by  *)
(* exactly 1 the visit count of every node on the parent chain from the    *)
(* simulated node up to and including the root, and their tallies by 1 for *)
(* the winner or by 0.5 for each player on a draw; the visit count and the *)
(* tallies of every node off the chain are unchanged.                      *)
C18_Backpropagation ==
    op.name = "backpropagate" =>
        /\ op.raised = ""
        /\ ChainCounted(op.pre, tree, op.node, op.winner)

(* what holds: the tree of team42_A3_MCTS_simplified does as the claim says *)
C18_A3_Backpropagation ==
    (op.name = "backpropagate" /\ op.driver # "MCT") =>
        /\ op.raised = ""
        /\ ChainCounted(op.pre, tree, op.node, op.winner)

(* what holds of team42_MCT: wins are tallied along the chain, draws are   *)
(* not, and the simulated node alone is counted                            *)
C18_MCT_Backpropagation ==
    (op.name = "backpropagate" /\ op.driver = "MCT" /\ op.raised = "") =>
        \A n \in 1..Len(tree) :
            /\ tree[n].visit_count =
                  op.pre[n].visit_count + (IF n = op.node THEN 1 ELSE 0)
            /\ tree[n].player1_wins_x2 = op.pre[n].player1_wins_x2 +
                  (IF n \in Chain(op.pre, op.node) /\ op.winner = 1 THEN 2 ELSE 0)
            /\ tree[n].player2_wins_x2 = op.pre[n].player2_wins_x2 +
                  (IF n \in Chain(op.pre, op.node) /\ op.winner = 2 THEN 2 ELSE 0)

(* a draw backpropagated in the tree of team42_A3_MCTS_simplified from a   *)
(* node below the root, with nodes off the chain                           *)
C18_WitnessDraw ==
    /\ op.name = "backpropagate"
    /\ op.driver # "MCT"
    /\ op.winner = 0
    /\ op.pre[op.node].parent # 0
    /\ Chain(op.pre, op.node) # 1..Len(op.pre)

(* team42_MCT backpropagates a win from a node below the root: the root is *)
(* not counted                                                             *)
C18_WitnessMCTChain ==
    /\ op.name = "backpropagate"
    /\ op.driver = "MCT"
    /\ op.raised = ""
    /\ op.winner = 1
    /\ op.pre[op.node].parent # 0
    /\ tree[1].visit_count = op.pre[1].visit_count

(* team42_MCT backpropagates a draw: no tally changes *)
C18_WitnessMCTDraw ==
    /\ op.name = "backpropagate"
    /\ op.driver = "MCT"
    /\ op.raised = ""
    /\ op.winner = 0
    /\ tree[op.node].player1_wins_x2 = op.pre[op.node].player1_wins_x2

----------------------------------------------------------------------------
(* a run between two cycles of its tree: run.cycles simulated games have   *)
(* been backpropagated                                                     *)
BetweenCycles ==
    /\ run.driver \in MCTSDrivers \cup TreeCycles
    /\ run.pc \in {"traverse", "best_move"}
    /\ tree # NoTree

(* C19: after N complete select-expand-simulate-backpropagate cycles (N    *)
(* simulated games) the visit count of the root has increased by exactly   *)
(* N, whatever the shape of the tree, cycles in which the root itself is   *)
(* the simulated node included.                                            *)
C19_RootVisitCount ==
    BetweenCycles => tree[1].visit_count = run.cycles

(* what holds: the tree of team42_A3_MCTS_simplified, under the drivers    *)
(* and on its own                                                          *)
C19_A3_RootVisitCount ==
    (BetweenCycles /\ run.driver # "MCT") => tree[1].visit_count = run.cycles

(* what holds of team42_MCT: a root with a legal move is counted once a    *)
(* cycle, by traverse; a root without one twice, by traverse and by        *)
(* backpropagate                                                           *)
C19_MCT_RootVisitCount ==
    (BetweenCycles /\ run.driver = "MCT") =>
        tree[1].visit_count =
            IF LegalMoveSet(heap[1]) = {} THEN 2 * run.cycles ELSE run.cycles

(* three simulated games in the tree of team42_A3_MCTS_simplified, the     *)
(* first from the root itself, the last from a child of the root           *)
C19_Witness ==
    /\ BetweenCycles
    /\ run.driver = "MonteCarloTree"
    /\ run.cycles = MaxCycles
    /\ op.name = "backpropagate"
    /\ op.pre[op.node].parent = 1
    /\ tree[1].visit_count = MaxCycles

(* one cycle of team42_MCT on a root without legal moves *)
C19_WitnessMCTRoot ==
    /\ BetweenCycles
    /\ run.driver = "MCT"
    /\ run.cycles = 1
    /\ op.name = "backpropagate"
    /\ op.node = 1
    /\ tree[1].visit_count = 2

----------------------------------------------------------------------------
(* C20: in every reachable state of the tree, at every node, player1_wins  *)
(* + player2_wins, a draw counted as 0.5 for each player, never exceeds    *)
(* the visit count of the node.                                            *)
C20_WinsWithinVisits ==
    \A n \in 1..Len(tree) :
        tree[n].player1_wins_x2 + tree[n].player2_wins_x2
            <= 2 * tree[n].visit_count

(* the tree of team42_A3_MCTS_simplified tallies every visit: the sum is   *)
(* the visit count                                                         *)
C20_A3_WinsAreVisits ==
    (run.driver \in MCTSDrivers \cup {"MonteCarloTree"}) =>
        \A n \in 1..Len(tree) :
            tree[n].player1_wins_x2 + tree[n].player2_wins_x2
                = 2 * tree[n].visit_count

(* a node of the tree of team42_A3_MCTS_simplified with a win and a draw   *)
(* tallied: the sum equals the visit count                                 *)
C20_Witness ==
    /\ run.driver \in MCTSDrivers
    /\ \E n \in 1..Len(tree) :
          /\ tree[n].visit_count >= 2
          /\ tree[n].player1_wins_x2 % 2 = 1
          /\ tree[n].player1_wins_x2 + tree[n].player2_wins_x2
                = 2 * tree[n].visit_count

(* a node of the tree of team42_MCT below the root with a win tallied *)
C20_WitnessMCT ==
    /\ run.driver = "MCT"
    /\ \E n \in 2..Len(tree) :
          /\ tree[n].visit_count = 1
          /\ tree[n].player1_wins_x2 + tree[n].player2_wins_x2 = 2

----------------------------------------------------------------------------
(* a child whose cached uct score is not less than that of any sibling *)
MaximalChild(t, node, child) ==
    /\ child \in Range(t[node].children)
    /\ \A sibling \in Range(t[node].children) :
          ~ uct_less(t[child].uct_score, t[sibling].uct_score)

(* C21: traverse() starts at the root and at each node with children      *)
(* moves to a child whose cached UCT score is maximal among its siblings,  *)
(* stopping at the first node without children: the node returned is a     *)
(* leaf of the tree and every node on the path was a maximal-UCT child of  *)
(* its parent.                                                             *)
C21_Selection ==
    op.name = "traverse" =>
        /\ op.path[1] = 1
        /\ op.pre[op.path[Len(op.path)]].children = <<>>
        /\ run.selected = op.path[Len(op.path)]
        /\ \A i \in 1..(Len(op.path) - 1) :
              /\ op.pre[op.path[i]].children # <<>>
              /\ MaximalChild(op.pre, op.path[i], op.path[i + 1])

(* a step of a traverse of a tree with a parent p whose children all have *)
(* been visited, one of them with a lesser score than the child taken      *)
FiniteChoice(driver) ==
    /\ op.name = "traverse"
    /\ run.driver = driver
    /\ \E i \in 1..(Len(op.path) - 1) :
          LET p == op.path[i]
          IN /\ Len(op.pre[p].children) >= 2
             /\ \A c \in Range(op.pre[p].children) : op.pre[c].visit_count > 0
             /\ \E c \in Range(op.pre[p].children) :
                   uct_less(op.pre[c].uct_score, op.pre[op.path[i + 1]].uct_score)

(* the tree of team42_A3_MCTS_simplified chooses among visited children *)
C21_Witness == FiniteChoice("MonteCarloTree")

(* the tree of team42_MCT chooses among visited children *)
C21_WitnessMCT == FiniteChoice("MCT")

----------------------------------------------------------------------------
(* C22: a never-visited child is preferred by selection over any visited   *)
(* sibling: whenever a node on the way has a child with visit count 0,     *)
(* traverse() descends into a child with visit count 0, whatever the       *)
(* statistics of the visited siblings.                                     *)
C22_UnvisitedPreferred ==
    op.name = "traverse" =>
        \A i \in 1..(Len(op.path) - 1) :
            (\E c \in Range(op.pre[op.path[i]].children) :
                 op.pre[c].visit_count = 0)
            => op.pre[op.path[i + 1]].visit_count = 0

(* what makes it so: a node has the score math.inf exactly as long as it   *)
(* has not been visited, between the cycles                                *)
C22_InfIffUnvisited ==
    BetweenCycles =>
        \A n \in 2..Len(tree) :
            (tree[n].uct_score = uct_inf) <=> (tree[n].visit_count = 0)

(* an unvisited child taken although a sibling has won every game          *)
(* simulated from it, counted for the player the sibling's score favours   *)
C22_Witness ==
    /\ op.name = "traverse"
    /\ run.driver \in MCTSDrivers \cup {"MonteCarloTree"}
    /\ \E i \in 1..(Len(op.path) - 1) :
          /\ op.pre[op.path[i + 1]].visit_count = 0
          /\ \E c \in Range(op.pre[op.path[i]].children) :
                /\ op.pre[c].visit_count > 0
                /\ op.pre[c].uct_score.kind = "value"
                /\ op.pre[c].uct_score.q_x2 = 2 * op.pre[c].visit_count

----------------------------------------------------------------------------
(* twice the win tally of a player at a node *)
WinsFor_x2(node, player) ==
    IF player = 1 THEN node.player1_wins_x2 ELSE node.player2_wins_x2

(* the score of a node after a backpropagation that went through it, with  *)
(* q the numerator of the first term, doubled; the visit count of the      *)
(* parent is the one the parent had when the score was computed            *)
ScoreIs(n, q_x2) ==
    IF tree[n].parent = 0
    THEN tree[n].uct_score = uct_zero
    ELSE tree[n].uct_score =
            uct_value(q_x2, tree[n].visit_count,
                      op.pre[tree[n].parent].visit_count)

(* C23: the UCT score computed for a node that is not the root and has     *)
(* been visited, for the player P of the search, is (wins_for_P / visits)  *)
(* + 2 * sqrt(ln(parent.visits) / visits), wins_for_P being the win tally  *)
(* of P at the node whatever player is to move there; the score of the     *)
(* root is 0 and that of a node without visits +infinity.                  *)
C23_UctFormula ==
    /\ (op.name = "backpropagate" /\ op.raised = "") =>
          \A n \in Chain(op.pre, op.node) :
              ScoreIs(n, WinsFor_x2(tree[n], run.our_player_id))
    /\ \A n \in 1..Len(tree) :
          (tree[n].visit_count = 0 /\ tree[n].parent # 0)
              => tree[n].uct_score = uct_inf

(* what the code computes: the tally is negated at a node where player 1   *)
(* is to move                                                              *)
C23_CodeFormula ==
    (op.name = "backpropagate" /\ op.raised = "") =>
        \A n \in Chain(op.pre, op.node) :
            ScoreIs(n, (IF tree[n].game_state.current_player = 1 THEN -1 ELSE 1)
                       * WinsFor_x2(tree[n], run.our_player_id))

(* a node where player 1 is to move, with a win of the search's player     *)
(* tallied: the first term of its score is negative                        *)
C23_WitnessNegated ==
    /\ op.name = "backpropagate"
    /\ op.raised = ""
    /\ run.driver \in MCTSDrivers
    /\ tree[op.node].parent # 0
    /\ tree[op.node].game_state.current_player = 1
    /\ WinsFor_x2(tree[op.node], run.our_player_id) > 0
    /\ tree[op.node].uct_score.q_x2 < 0

(* a node where player 2 is to move, with a win of the search's player     *)
(* tallied: the score is the one of the formula                            *)
C23_WitnessPlain ==
    /\ op.name = "backpropagate"
    /\ op.raised = ""
    /\ tree[op.node].parent # 0
    /\ tree[op.node].game_state.current_player = 2
    /\ tree[op.node].uct_score.q_x2 > 0
    /\ tree[op.node].uct_score.q_x2 = WinsFor_x2(tree[op.node], run.our_player_id)

----------------------------------------------------------------------------
(* an expansion by MonteCarloTree.expand, of either tree *)
BaseExpand == op.name = "expand" /\ run.driver \in TreeCycles

(* the nodes an expansion has added *)
NewNodes == (Len(op.pre) + 1)..Len(tree)

(* C24: MonteCarloTree.expand of a leaf whose state has k legal moves: if  *)
(* k >= 1 exactly k children are added, one per legal move, each with the  *)
(* state _make_move(leaf state, move), zero visits and the leaf as parent, *)
(* and one of the new children is returned; if k = 0 no child is added,    *)
(* the tree is unchanged and the leaf itself is returned.                  *)
C24_Expansion ==
    BaseExpand =>
        LET leaf == op.pre[op.node]
            legal == LegalMoveSet(leaf.game_state)
        IN /\ leaf.children = <<>>
           /\ Cardinality(NewNodes) = Cardinality(legal)
           /\ { tree[c].move : c \in NewNodes } = legal
           /\ \A c \in NewNodes :
                 /\ tree[c].game_state = referee_move(leaf.game_state, tree[c].move)
                 /\ tree[c].visit_count = 0
                 /\ tree[c].player1_wins_x2 = 0 /\ tree[c].player2_wins_x2 = 0
                 /\ tree[c].children = <<>>
                 /\ tree[c].parent = op.node
           /\ Range(tree[op.node].children) = NewNodes
           /\ Len(tree[op.node].children) = Cardinality(NewNodes)
           /\ \A n \in 1..Len(op.pre) :
                 tree[n] = [op.pre[n] EXCEPT !.children = tree[n].children]
           /\ \A n \in 1..Len(op.pre) :
                 n # op.node => tree[n].children = op.pre[n].children
           /\ IF legal = {}
              THEN tree = op.pre /\ op.returned = op.node
              ELSE op.returned \in NewNodes
           /\ run.selected = op.returned

(* the tree of team42_A3_MCTS_simplified expands a leaf with several moves *)
(* and returns a child that is not the first                               *)
C24_Witness ==
    /\ BaseExpand
    /\ run.driver = "MonteCarloTree"
    /\ Cardinality(NewNodes) >= 2
    /\ op.returned # tree[op.node].children[1]

(* an expansion of a leaf without legal moves *)
C24_WitnessNoMoves ==
    /\ BaseExpand
    /\ LegalMoveSet(op.pre[op.node].game_state) = {}
    /\ tree = op.pre

(* an expansion of a leaf below the root *)
C24_WitnessBelowRoot ==
    /\ BaseExpand
    /\ op.node # 1
    /\ Cardinality(NewNodes) >= 1

(* an expansion by team42_MCT *)
C24_WitnessMCT ==
    /\ BaseExpand
    /\ run.driver = "MCT"
    /\ Cardinality(NewNodes) >= 2

----------------------------------------------------------------------------
(* C25: MonteCarloTree.simulate terminates from every game state, and      *)
(* returns only when both players have no legal moves in the final state;  *)
(* its result is 1 if the final score of player 1 is higher, 2 if player   *)
(* 2's is higher and 0 if they are equal.  A player with no legal moves is *)
(* skipped while the other player still has moves.                         *)

BaseSimulate == ro # NoRo /\ ro.kind = "MonteCarloTree"

SimulateReturned == ro # NoRo /\ ro.pc = "returned"

HasLegalMove(game_state, player) ==
    LegalMoveSet([game_state EXCEPT !.current_player = player]) # {}

(* the state simulate returns from *)
C25_Final ==
    (BaseSimulate /\ ro.pc = "returned") =>
        LET final == heap[ro.ref]
        IN /\ ~ HasLegalMove(final, 1)
           /\ ~ HasLegalMove(final, 2)
           /\ ro.result = (IF final.scores[1] > final.scores[2] THEN 1
                           ELSE IF final.scores[2] > final.scores[1] THEN 2
                           ELSE 0)

(* every move of the simulation is a legal move of the player to move, or  *)
(* of the other player when the player to move has no legal move           *)
C25_Skip ==
    (BaseSimulate /\ op'.name = "simulate_turn" /\ op'.moved) =>
        LET before == heap[ro.ref]
            mover == IF HasLegalMove(before, before.current_player)
                     THEN before.current_player
                     ELSE 3 - before.current_player
            turn == [before EXCEPT !.current_player = mover]
            after == heap'[ro'.ref]
        IN /\ Len(after.moves) = Len(before.moves) + 1
           /\ after.moves[Len(after.moves)] \in LegalMoveSet(turn)
           /\ after = referee_move(turn, after.moves[Len(after.moves)])

(* the variant of the loop: the empty squares and the players not yet     *)
(* marked; every turn of the loop that does not return lowers it, and it   *)
(* is never negative, so the loop returns after finitely many turns        *)
C25_Variant(frame, hp) ==
    CountEmpty(hp[frame.ref].board)
        + (IF frame.player1_out_of_moves THEN 0 ELSE 1)
        + (IF frame.player2_out_of_moves THEN 0 ELSE 1)

C25_Terminates ==
    (BaseSimulate /\ op'.name = "simulate_turn") =>
        \/ ro'.pc = "returned"
        \/ /\ ro'.pc = "loop"
           /\ C25_Variant(ro', heap') < C25_Variant(ro, heap)
           /\ C25_Variant(ro', heap') >= 0

C25_Simulate ==
    /\ [] C25_Final
    /\ [][C25_Skip]_vars
    /\ [][C25_Terminates]_vars

(* a simulation that skipped a player, made moves and returned *)
C25_Witness ==
    /\ BaseSimulate
    /\ ro.pc = "returned"
    /\ ro.skipped
    /\ ro.moves_made >= 2

(* a simulation of a state where nobody can move *)
C25_WitnessNoMoves ==
    /\ BaseSimulate
    /\ ro.pc = "returned"
    /\ ro.moves_made = 0
    /\ CountEmpty(heap[ro.ref].board) > 0

----------------------------------------------------------------------------
(* C26: MCTSimplified.simulate terminates from every game state and        *)
(* returns a value in {0, 1, 2}: it stops when its move budget is used up  *)
(* or when the game is terminal, including states where empty squares      *)
(* remain but neither player has an allowed square, and states where       *)
(* player_squares() reports no restriction.                                *)

SimplifiedSimulate == ro # NoRo /\ ro.kind = "MCTSimplified"

(* player_squares() of the player is a list with a square in it *)
HasSquare(game_state, player) ==
    LET squares == player_squares([game_state EXCEPT !.current_player = player])
    IN ~ squares.isNone /\ squares.val # <<>>

(* termination, stated so that a finite run refutes it: a turn of the loop *)
(* lowers n_moves, or passes the turn to a player who has a square to play *)
(* (whose turn then lowers n_moves); n_moves is never negative             *)
C26_Progress ==
    (SimplifiedSimulate /\ op'.name = "simplified_turn") =>
        /\ ro'.n_moves >= 0
        /\ \/ ro'.n_moves < ro.n_moves
           \/ /\ ro'.n_moves = ro.n_moves
              /\ HasSquare(heap'[ro'.ref], heap'[ro'.ref].current_player)

C26_Returns ==
    (SimplifiedSimulate /\ SimulateReturned) => ro.result \in {0, 1, 2}

C26_SimplifiedTerminates ==
    /\ [] C26_Returns
    /\ [][C26_Progress]_vars

(* the part that holds: the value returned is 0, 1 or 2, and a turn in a   *)
(* state where the player to move has a square lowers n_moves              *)
C26_ProgressWithSquare ==
    (/\ SimplifiedSimulate
     /\ op'.name = "simplified_turn"
     /\ HasSquare(heap[ro.ref], heap[ro.ref].current_player)) =>
        ro'.n_moves = ro.n_moves - 1

C26_TerminatesWithSquares ==
    /\ [] C26_Returns
    /\ [][C26_ProgressWithSquare]_vars

(* the loop is back in the state of two turns before: it runs forever *)
C26_SameStateAgain ==
    /\ SimplifiedSimulate
    /\ ro.pc = "loop"
    /\ ro.n_moves > 0
    /\ ro.skipped
    /\ ~ HasSquare(heap[ro.ref], 1)
    /\ ~ HasSquare(heap[ro.ref], 2)

----------------------------------------------------------------------------
(* C27: when a rollout of MCTSimplified.simulate is truncated by its move  *)
(* budget before the game is over (search_depth < 1 with empty squares     *)
(* left), the winner it reports is decided by the sign of evaluate_state   *)
(* on the truncated state; only a rollout that reaches the end of the game *)
(* is decided by the raw score difference.                                 *)

(* the rollout has returned with empty squares left on its board *)
Truncated ==
    /\ SimplifiedSimulate
    /\ SimulateReturned
    /\ ro.search_depth_x4 < 4
    /\ CountEmpty(heap[ro.ref].board) > 0

WinnerByEvaluator(game_state) ==
    LET zero == float(0, game_state.board.N)
        state_score == evaluate_state(game_state)
    IN winner_of(~ float_le(state_score, zero), ~ float_le(zero, state_score))

WinnerByScores(game_state) ==
    winner_of(game_state.scores[1] > game_state.scores[2],
              game_state.scores[1] < game_state.scores[2])

C27_TruncatedByEvaluator ==
    (SimplifiedSimulate /\ SimulateReturned) =>
        ro.result = (IF Truncated
                     THEN WinnerByEvaluator(heap[ro.ref])
                     ELSE WinnerByScores(heap[ro.ref]))

(* what the code does: the score difference decides every rollout *)
C27_AlwaysByScores ==
    (SimplifiedSimulate /\ SimulateReturned) =>
        ro.result = WinnerByScores(heap[ro.ref])

(* a truncated rollout whose evaluator and score difference disagree *)
C27_TruncatedDisagree ==
    /\ Truncated
    /\ ro.moves_made > 0
    /\ WinnerByEvaluator(heap[ro.ref]) # WinnerByScores(heap[ro.ref])

(* a rollout that made moves and ended with the board full *)
C27_FinishedRollout ==
    /\ SimplifiedSimulate
    /\ SimulateReturned
    /\ ro.moves_made > 0
    /\ CountEmpty(heap[ro.ref].board) = 0

----------------------------------------------------------------------------
(* C28: _get_best_move considers only root children with nonzero visit     *)
(* count and returns the move of the child with the highest visit count    *)
(* under the robust policy (is_robust = True) and of the child with the    *)
(* highest win ratio wins/visits under the max policy (is_robust = False); *)
(* a child with zero visits is never returned.                             *)

(* _get_best_move has just run on the tree and found a child *)
BestMoveRun ==
    /\ op.name = "run"
    /\ op.step = "_get_best_move"
    /\ run.pc # "crashed"

VisitedChildren == { c \in Range(tree[1].children) : tree[c].visit_count # 0 }

(* the win ratio of child a is not below the one of child b, in the wins   *)
(* of player                                                               *)
RatioAtLeast(a, b, player) ==
    WinsFor_x2(tree[a], player) * tree[b].visit_count
        >= WinsFor_x2(tree[b], player) * tree[a].visit_count

(* the child returned has visits, and the greatest score of the policy     *)
(* among the children with visits; the wins are those of player            *)
BestOf(is_robust, player) ==
    LET bestChild == _get_best_move(tree, is_robust)
    IN /\ bestChild \in VisitedChildren
       /\ \A c \in VisitedChildren :
             IF is_robust
             THEN tree[bestChild].visit_count >= tree[c].visit_count
             ELSE RatioAtLeast(bestChild, c, player)

(* the wins of the ratio are those of the player the driver moves for *)
C28_BestMove ==
    BestMoveRun =>
        /\ BestOf(TRUE, run.our_player_id)
        /\ BestOf(FALSE, run.our_player_id)
        /\ run.proposals[Len(run.proposals)] = tree[_get_best_move(tree, FALSE)].move

(* what the code does: the ratio is player1_wins / visit_count, whoever    *)
(* the driver moves for                                                    *)
C28_BestMovePlayer1 ==
    BestMoveRun =>
        /\ BestOf(TRUE, 1)
        /\ BestOf(FALSE, 1)
        /\ run.proposals[Len(run.proposals)] = tree[_get_best_move(tree, FALSE)].move

(* the driver moves for player 2, and the child proposed has a lower ratio *)
(* of wins of player 2 than another child with visits                      *)
C28_WorstForPlayer2 ==
    /\ BestMoveRun
    /\ run.our_player_id = 2
    /\ \E c \in VisitedChildren :
          ~ RatioAtLeast(_get_best_move(tree, FALSE), c, 2)

(* the policies differ, and a child without visits is passed over *)
C28_PoliciesDiffer ==
    /\ BestMoveRun
    /\ _get_best_move(tree, TRUE) # _get_best_move(tree, FALSE)
    /\ \E c \in Range(tree[1].children) : tree[c].visit_count = 0

----------------------------------------------------------------------------
(* C29: if the root has no child with nonzero visit count (all children    *)
(* unvisited, or no children at all because expansion produced none), the  *)
(* MCTS driver proposes no move in that cycle, raises no error, and the    *)
(* fallback move proposed at the start remains the latest proposal; this   *)
(* holds after every cycle of the driver loop.                             *)

(* the driver is about to propose the best move of a cycle *)
AtBestMove ==
    /\ run.driver \in MCTSDrivers
    /\ run.pc = "best_move"
    /\ ~ (run.driver = "A3_MCTS" /\ run.iteration % 5 # 0)

C29_NoVisitedChild ==
    (AtBestMove /\ VisitedChildren = {}) =>
        /\ run'.pc # "crashed"
        /\ run'.proposals = run.proposals

C29_VisitedChild ==
    (AtBestMove /\ VisitedChildren # {} /\ run' # run) =>
        /\ run'.pc # "crashed"
        /\ Len(run'.proposals) = Len(run.proposals) + 1
        /\ \E c \in VisitedChildren :
              run'.proposals[Len(run'.proposals)] = tree[c].move

C29_ProposesVisitedChild == [][C29_VisitedChild]_vars

(* the driver has crashed in _get_best_move on a root without children *)
C29_CrashedNoChildren ==
    /\ run.driver \in MCTSDrivers
    /\ run.pc = "crashed"
    /\ run.raised = "AttributeError"
    /\ tree # NoTree
    /\ tree[1].children = <<>>
    /\ Len(run.legal_moves) > 0

----------------------------------------------------------------------------
(* C30: a tree node is mutated only by backpropagation and expansion:      *)
(* selection and simulation leave the game state stored in every node      *)
(* unchanged.  simulate(node) does not change node.game_state, also when   *)
(* the player to move at the node has no legal move, and the placeholder   *)
(* value of the simplified rollout never appears in a state stored in the  *)
(* tree.                                                                   *)

(* the step is a traverse or a simulate of a tree *)
SelectionOrSimulation ==
    /\ tree # NoTree
    /\ \/ op'.name = "traverse"
       \/ op'.name = "run" /\ op'.step = "simulate"

GameStatesKept ==
    /\ Len(tree') = Len(tree)
    /\ \A node \in 1..Len(tree) : tree'[node].game_state = tree[node].game_state

NoDummyInTree ==
    \A node \in 1..Len(tree) :
        \A square \in AllSquares(tree[node].game_state.board.N) :
            board_get(tree[node].game_state.board, square) # DUMMY_VALUE

C30_GameStateFrame ==
    /\ [][SelectionOrSimulation => GameStatesKept]_vars
    /\ [] NoDummyInTree

(* the parts that hold: selection keeps every game state, the simulation   *)
(* of MCTSimplified keeps every game state, and no state of a tree holds   *)
(* the placeholder                                                         *)
C30_FrameOfCopy ==
    /\ [][(SelectionOrSimulation
            /\ (op'.name = "traverse" \/ run.driver \in MCTSDrivers))
          => GameStatesKept]_vars
    /\ [] NoDummyInTree

(* simulate of the base tree has changed the player to move at the root *)
C30_PlayerSwitched ==
    /\ run.driver \in TreeCycles
    /\ op.name = "run"
    /\ op.step = "simulate"
    /\ run.selected = 1
    /\ tree[1].game_state.current_player # heap[1].current_player

(* in the simulation itself: MonteCarloTree.simulate changes the object it *)
(* is called with, MCTSimplified.simulate does not                         *)
C30_SimulateKeepsNodeState == ro # NoRo => heap[1] = ro.called_with

C30_SimplifiedKeepsNodeState ==
    SimplifiedSimulate => heap[1] = ro.called_with

----------------------------------------------------------------------------
(* C31: only_squares_rule changes the candidate set of a square only if    *)
(* that square has more than one valid value and, for some peer group      *)
(* (row, column or block without the square), exactly one of the square's  *)
(* valid values can be realized by no empty member of the group; the       *)
(* square's candidates then become its considered values intersected with  *)
(* that single value.  In every other case they are returned unchanged.    *)

(* the peer groups of a square by the rules of the game *)
PeerGroups(board, square) ==
    { RowCells(board.N, square) \ {square},
      ColCells(board.N, square) \ {square},
      BlockCells(board, square) \ {square} }

(* the peer groups as the heuristics compute them *)
CodeGroups(board, square) == Range(groups_of(square, board))

(* the valid values of the square that no empty member of the group can    *)
(* take                                                                    *)
Unrealized(board, square, group) ==
    { v \in Candidates(board, square) :
        \A c \in group : board_get(board, c) = empty => v \notin Candidates(board, c) }

(* the groups in which exactly one valid value is unrealized *)
Decisive(board, square, groups) ==
    { group \in groups : Cardinality(Unrealized(board, square, group)) = 1 }

OnlySquaresAsClaimed(board, before, after, groups(_, _)) ==
    /\ DOMAIN after.vals = DOMAIN before.vals
    /\ after.keys = before.keys
    /\ \A square \in DOMAIN before.vals :
          LET decisive == Decisive(board, square, groups(board, square))
          IN IF Cardinality(Candidates(board, square)) > 1 /\ decisive # {}
             THEN \E group \in decisive :
                     after.vals[square] =
                        before.vals[square] \cap Unrealized(board, square, group)
             ELSE after.vals[square] = before.vals[square]

C31_OnlyWhenDecisive ==
    h.called =>
        OnlySquaresAsClaimed(heap[h.src].board, h.input, h.only, PeerGroups)

(* the part that holds: the same with the groups the heuristics compute,   *)
(* whose third group is not the block when the blocks are not square       *)
C31_OnlyWhenDecisiveInCodeGroups ==
    h.called =>
        OnlySquaresAsClaimed(heap[h.src].board, h.input, h.only, CodeGroups)

(* on boards with square blocks the claim holds as stated *)
C31_OnlyWhenDecisiveSquareBlocks ==
    (h.called /\ heap[h.src].board.m = heap[h.src].board.n) =>
        OnlySquaresAsClaimed(heap[h.src].board, h.input, h.only, PeerGroups)

(* a call in which the rule fires for a square and leaves another square,  *)
(* which has several valid values and no decisive group, as it was         *)
C31_Fired ==
    /\ h.called
    /\ \E square \in DOMAIN h.input.vals :
          /\ Decisive(heap[h.src].board, square,
                      CodeGroups(heap[h.src].board, square)) # {}
          /\ h.only.vals[square] # h.input.vals[square]
    /\ \E square \in DOMAIN h.input.vals :
          /\ Cardinality(Candidates(heap[h.src].board, square)) > 1
          /\ Decisive(heap[h.src].board, square,
                      CodeGroups(heap[h.src].board, square)) = {}

(* a call in which the rule fires on a group that is no block, row or      *)
(* column of the square                                                    *)
C31_FiredOutsideBlock ==
    /\ h.called
    /\ \E square \in DOMAIN h.input.vals :
          /\ h.only.vals[square] # h.input.vals[square]
          /\ Decisive(heap[h.src].board, square,
                      PeerGroups(heap[h.src].board, square)) = {}

----------------------------------------------------------------------------
(* C32: MCTSimplified.expand adds at most 3 children to the selected node, *)
(* at most one per square, each for a legal move of the node's state       *)
(* (restricted by sudoku_heuristics only when the node is the root); the   *)
(* children are the moves whose resulting states rank best under           *)
(* evaluate_state from the mover's perspective (highest values when player *)
(* 1 moves, lowest when player 2 moves), stored best first, and the best   *)
(* one is returned; with no moves the node itself is returned and no child *)
(* is added.                                                               *)

SimplifiedExpand == op.name = "expand" /\ run.driver \in MCTSDrivers

(* the moves expand chooses from *)
ExpandMoves(node) ==
    LET game_state == op.pre[node].game_state
    IN IF node = 1
       THEN Range(sudoku_heuristics(get_legal_moves(game_state), game_state))
       ELSE LegalMoveSet(game_state)

(* the value of a move for the player who makes it: a is at least as good  *)
(* as b                                                                    *)
RanksAtLeast(game_state, a, b) ==
    LET value_a == evaluate_state(referee_move(game_state, a))
        value_b == evaluate_state(referee_move(game_state, b))
    IN IF game_state.current_player = 1
       THEN float_le(value_b, value_a)
       ELSE float_le(value_a, value_b)

C32_SimplifiedExpansion ==
    SimplifiedExpand =>
        LET leaf == op.pre[op.node]
            game_state == leaf.game_state
            moves == ExpandMoves(op.node)
            children == tree[op.node].children
            squares == { mv.square : mv \in moves }
            expected == IF Cardinality(squares) < 3 THEN Cardinality(squares) ELSE 3
        IN /\ leaf.children = <<>>
           /\ Range(children) = NewNodes
           /\ Len(children) = Cardinality(NewNodes)
           /\ Len(children) <= 3
           /\ Len(children) = expected
           /\ \A c \in NewNodes :
                 /\ tree[c].move \in moves
                 /\ tree[c].move \in LegalMoveSet(game_state)
                 /\ tree[c].game_state = referee_move(game_state, tree[c].move)
                 /\ tree[c].parent = op.node
                 /\ tree[c].visit_count = 0
           /\ \A c, d \in NewNodes :
                 tree[c].move.square = tree[d].move.square => c = d
           /\ \A c \in NewNodes : \A mv \in moves :
                 (mv.square \notin { tree[d].move.square : d \in NewNodes })
                     => RanksAtLeast(game_state, tree[c].move, mv)
           /\ \A i, j \in 1..Len(children) :
                 i < j => RanksAtLeast(game_state, tree[children[i]].move,
                                       tree[children[j]].move)
           /\ \A n \in 1..Len(op.pre) :
                 n # op.node => tree[n] = op.pre[n]
           /\ IF moves = {}
              THEN tree = op.pre /\ op.returned = op.node
              ELSE op.returned = children[1]
           /\ run.selected = op.returned

(* an expansion by player 2 that leaves out moves of other squares, one of *)
(* them ranked strictly below the children                                 *)
C32_Witness ==
    /\ SimplifiedExpand
    /\ op.pre[op.node].game_state.current_player = 2
    /\ Len(tree[op.node].children) = 3
    /\ \E mv \in ExpandMoves(op.node) :
          /\ mv.square \notin { tree[d].move.square : d \in NewNodes }
          /\ ~ RanksAtLeast(op.pre[op.node].game_state, mv,
                            tree[tree[op.node].children[3]].move)

(* the same for player 1 *)
C32_WitnessPlayer1 ==
    /\ SimplifiedExpand
    /\ op.pre[op.node].game_state.current_player = 1
    /\ Len(tree[op.node].children) = 3
    /\ \E mv \in ExpandMoves(op.node) :
          /\ mv.square \notin { tree[d].move.square : d \in NewNodes }
          /\ ~ RanksAtLeast(op.pre[op.node].game_state, mv,
                            tree[tree[op.node].children[3]].move)

(* an expansion below the root, and one of a square with several values *)
C32_WitnessBelowRoot ==
    /\ SimplifiedExpand
    /\ op.node # 1
    /\ tree[op.node].children # <<>>

C32_WitnessSeveralValues ==
    /\ SimplifiedExpand
    /\ \E c \in NewNodes : \E mv \in ExpandMoves(op.node) :
          mv.square = tree[c].move.square /\ mv.value # tree[c].move.value

(* an expansion that finds no move *)
C32_WitnessNoMoves ==
    /\ SimplifiedExpand
    /\ ExpandMoves(op.node) = {}
    /\ op.returned = op.node

----------------------------------------------------------------------------
(* C33: the block used by the pruning heuristics is the block used by move *)
(* generation and scoring: for every block shape m x n (including m # n)   *)
(* and every square, _get_region_squares(square, board) is exactly the set *)
(* of cells whose values get_block(board, square) reads, i.e. rows         *)
(* (r \div m) * m .. + m - 1 and columns (c \div n) * n .. + n - 1.        *)

(* the cells of the claim *)
ClaimedBlock(board, square) ==
    { <<r, c>> : r \in ((square[1] \div board.m) * board.m)
                         ..((square[1] \div board.m) * board.m + board.m - 1),
                 c \in ((square[2] \div board.n) * board.n)
                         ..((square[2] \div board.n) * board.n + board.n - 1) }

RegionIsBlock(board) ==
    \A square \in AllSquares(board.N) :
        /\ ClaimedBlock(board, square) = BlockCells(board, square)
        /\ get_block(board, square)
             = { board_get(board, c) : c \in ClaimedBlock(board, square) }
        /\ _get_region_squares(square, board) = ClaimedBlock(board, square)

C33_RegionIsBlock == h.called => RegionIsBlock(heap[h.src].board)

(* the part that holds: boards with square blocks, and get_block on every  *)
(* board                                                                   *)
C33_RegionIsBlockSquare ==
    h.called =>
        LET board == heap[h.src].board
        IN /\ board.m = board.n => RegionIsBlock(board)
           /\ \A square \in AllSquares(board.N) :
                 get_block(board, square)
                    = { board_get(board, c) : c \in ClaimedBlock(board, square) }

(* a call on a board with blocks of two rows and three columns, where the  *)
(* region of a square is a rectangle of three rows and two columns         *)
C33_RegionTransposed ==
    /\ h.called
    /\ heap[h.src].board.m = 2
    /\ heap[h.src].board.n = 3
    /\ _get_region_squares(<<2, 5>>, heap[h.src].board)
         = { <<0, 4>>, <<0, 5>>, <<1, 4>>, <<1, 5>>, <<2, 4>>, <<2, 5>> }

----------------------------------------------------------------------------
(* C34: in the pruned minimax driver (team42_A2_free_opponent), for every  *)
(* root state with at least one legal move, the candidate list of the root *)
(* (wall_heuristic(get_legal_moves(game_state)) without the moves the      *)
(* sudoku heuristics pruned) is never empty, so every iteration of the     *)
(* deepening loop returns and proposes a move and nothing is raised.       *)

FreeOpponentSearch ==
    /\ run.driver = "A2_free_opponent"
    /\ Len(get_legal_moves(heap[1])) > 0

(* the candidate list of the next call of _find_best_move *)
RootCandidates ==
    SelectSeq(A2_wall_heuristic(get_legal_moves(heap[1]), heap[1]),
              LAMBDA move : move \notin Range(run.pruned))

C34_WallFilterNeverEmpty ==
    /\ FreeOpponentSearch =>
          /\ Len(A2_wall_heuristic(get_legal_moves(heap[1]), heap[1])) > 0
          /\ Range(A2_wall_heuristic(get_legal_moves(heap[1]), heap[1]))
                \subseteq Range(get_legal_moves(heap[1]))
    /\ (FreeOpponentSearch /\ run.pc = "propose") =>
          run.best_move \in Range(RootCandidates)
    /\ (FreeOpponentSearch /\ run.raised # "") =>
          /\ Len(RootCandidates) = 0
          /\ run.raised = "IndexError"
          /\ Len(run.proposals) = 1

(* the heuristics pruned every legal move of the root, and the first       *)
(* iteration raised                                                        *)
C34_EveryMovePruned ==
    /\ FreeOpponentSearch
    /\ Range(run.pruned) = Range(get_legal_moves(heap[1]))
    /\ Len(RootCandidates) = 0
    /\ run.raised = "IndexError"

(* the wall filter dropped legal moves, the heuristics pruned others, and  *)
(* the deepening loop proposed twice                                       *)
C34_FilteredAndProposed ==
    /\ FreeOpponentSearch
    /\ Len(RootCandidates) > 0
    /\ Len(A2_wall_heuristic(get_legal_moves(heap[1]), heap[1]))
          < Len(get_legal_moves(heap[1]))
    /\ Len(run.pruned) > 0
    /\ Len(run.proposals) = 3

----------------------------------------------------------------------------
(* C35: in the saving variant, for every root state with at least one      *)
(* candidate move, _find_best_move returns a pair (move, save data) in     *)
(* which the move has the best score among the root candidates and the     *)
(* save data is the one produced by the search of that same move, also     *)
(* when two or more root moves have equal scores.                          *)

SavingSearch == op.name = "saving_find_best_move" /\ Len(op.good_moves) > 0

(* the indices of a returned move among the candidates *)
IndexOf(move) == { i \in 1..Len(op.good_moves) : op.good_moves[i] = move }

BestScore(i) ==
    \A j \in 1..Len(op.scores) :
        IF heap[1].current_player = 1
        THEN float_le(op.scores[j].score, op.scores[i].score)
        ELSE float_le(op.scores[i].score, op.scores[j].score)

C35_BestMoveAndItsSaveData ==
    SavingSearch =>
        /\ op.raised = ""
        /\ op.results # {}
        /\ \A result \in op.results :
              \A i \in IndexOf(result.move) :
                 /\ BestScore(i)
                 /\ result.save_data = op.scores[i].save_data

(* the part that holds: a returned move has the best score, every move     *)
(* with the best score can be returned, and up to depth 2 the save data is *)
(* that of the move                                                        *)
C35_BestMove ==
    (SavingSearch /\ op.raised = "") =>
        /\ { result.move : result \in op.results }
             = { op.good_moves[i] : i \in { j \in 1..Len(op.scores) : BestScore(j) } }
        /\ \A result \in op.results :
              /\ result.save_data = op.scores[Len(op.scores)].save_data
              /\ op.depth <= 2 =>
                    \A i \in IndexOf(result.move) :
                       result.save_data = op.scores[i].save_data
        /\ op.depth <= 2 => op.raised = ""

(* a search returned a best move with the save data of another move *)
C35_SaveDataOfLastMove ==
    /\ SavingSearch
    /\ op.raised = ""
    /\ \E result \in op.results :
          \E i \in IndexOf(result.move) :
             /\ BestScore(i)
             /\ result.save_data # op.scores[i].save_data
             /\ result.save_data = op.scores[Len(op.scores)].save_data

(* two moves with equal scores and different save data: the ranking raised *)
C35_TieRaises ==
    /\ SavingSearch
    /\ op.raised = "TypeError"
    /\ \E i, j \in 1..Len(op.scores) :
          /\ op.scores[i].score = op.scores[j].score
          /\ op.scores[i].save_data # op.scores[j].save_data

(* two moves with equal best scores, either can be returned *)
C35_TieReturned ==
    /\ SavingSearch
    /\ Cardinality(op.results) > 1

----------------------------------------------------------------------------
(* C36: in the saving variant the save data handed to save() after a       *)
(* search depends only on the root state and the save data that was        *)
(* loaded: for every search depth d >= 1 it is the save data               *)
(* wall_heuristic returns for the root state itself; phase changes         *)
(* computed for positions inside the search tree reach neither the saved   *)
(* data nor the root call of the next iteration.                           *)

(* the save data wall_heuristic returns for the root state *)
RootSaveData ==
    wall_heuristic_save(get_legal_moves(heap[1]), heap[1], run.loaded).save_data

SavingRun == run.driver = "A2_withsaving" /\ "load" \in run.work

C36_SavedIsRootSaveData ==
    SavingRun =>
        /\ \A d \in 1..Len(run.saved) : run.saved[d] = RootSaveData
        /\ (op.name = "saving_find_best_move" /\ op.depth > 1) =>
              op.called_with = RootSaveData

(* the part that holds: the searches of depth 1 and 2 save the save data   *)
(* of the root, the save data does not depend on the move that is drawn,   *)
(* every iteration is called with what the one before saved, and the wall  *)
(* heuristic maps the save data of the root to itself                      *)
C36_SavedUpToDepthTwo ==
    SavingRun =>
        /\ \A d \in 1..Len(run.saved) : d <= 2 => run.saved[d] = RootSaveData
        /\ op.name = "saving_find_best_move" =>
              /\ Cardinality({ result.save_data : result \in op.results }) <= 1
              /\ op.called_with = IF op.depth = 1 THEN run.loaded
                                  ELSE run.saved[op.depth - 1]
              /\ op.root = wall_heuristic_save(get_legal_moves(heap[1]), heap[1],
                                               op.called_with).save_data
              /\ op.depth <= 3 => op.root = RootSaveData

(* the search of depth 3 saved a phase of a position inside the tree, and  *)
(* the searches of depth 1 and 2 the save data of the root                 *)
C36_SearchPhaseSaved ==
    /\ SavingRun
    /\ Len(run.saved) = 3
    /\ run.saved[1] = RootSaveData
    /\ run.saved[2] = RootSaveData
    /\ run.saved[3] # RootSaveData
    /\ run.saved[3].curr_phase # RootSaveData.curr_phase

(* three searches saved the save data of the root *)
C36_RootSaveDataSaved ==
    /\ SavingRun
    /\ Len(run.saved) = 3
    /\ \A d \in 1..3 : run.saved[d] = RootSaveData
    /\ RootSaveData # run.loaded

----------------------------------------------------------------------------
(* C37: the structure of the MCTS tree after any number of cycles: the     *)
(* root has no parent; every child c in n.children has c.parent = n; the   *)
(* state stored in every node but the root is _make_move(state stored in   *)
(* its parent, node.move), so its current player is the other player than  *)
(* its parent's; children are never removed; a node receives children at   *)
(* most once, and no move occurs twice among the children of a node.       *)

(* the trees of team42_A3_MCTS_simplified: MonteCarloTree on its own and   *)
(* MCTSimplified under the drivers                                         *)
SimplifiedTree ==
    /\ run.driver \in MCTSDrivers \cup {"MonteCarloTree"}
    /\ tree # NoTree

ParentLinks(t) ==
    /\ t[1].parent = 0
    /\ \A n \in 1..Len(t) :
          /\ \A i \in 1..Len(t[n].children) :
                /\ t[n].children[i] \in 2..Len(t)
                /\ t[t[n].children[i]].parent = n
          /\ n > 1 => /\ t[n].parent \in 1..Len(t)
                      /\ n \in Range(t[t[n].parent].children)

NoMoveTwice(t) ==
    \A n \in 1..Len(t) :
        \A i, j \in 1..Len(t[n].children) :
            (t[t[n].children[i]].move = t[t[n].children[j]].move) => i = j

StatesFollowMoves(t) ==
    \A n \in 2..Len(t) :
        /\ t[n].game_state = apply_move(t[t[n].parent].game_state, t[n].move)
        /\ t[n].game_state.current_player
              = 3 - t[t[n].parent].game_state.current_player

(* a step of the tree removes no child and gives children only to a node   *)
(* that has none                                                           *)
ChildrenKept ==
    (tree # NoTree /\ tree' # NoTree) =>
        /\ Len(tree') >= Len(tree)
        /\ \A n \in 1..Len(tree) :
              \/ tree'[n].children = tree[n].children
              \/ /\ tree[n].children = <<>>
                 /\ op'.name = "expand"
                 /\ op'.node = n

C37_TreeStructure ==
    /\ [](SimplifiedTree =>
             /\ ParentLinks(tree)
             /\ NoMoveTwice(tree)
             /\ StatesFollowMoves(tree))
    /\ [][SimplifiedTree => ChildrenKept]_vars

(* the part that holds: the links, the moves and the growth in both trees, *)
(* the stored states in the tree of the drivers, whose simulate works on a *)
(* copy, and in the tree on its own everything of a stored state but the   *)
(* player to move                                                          *)
C37_LinksAndGrowth ==
    /\ [](SimplifiedTree =>
             /\ ParentLinks(tree)
             /\ NoMoveTwice(tree)
             /\ run.driver \in MCTSDrivers => StatesFollowMoves(tree)
             /\ \A n \in 2..Len(tree) :
                   \E player \in {1, 2} :
                      [tree[n].game_state EXCEPT !.current_player = player]
                         = apply_move([tree[tree[n].parent].game_state
                                          EXCEPT !.current_player = 3 - player],
                                      tree[n].move))
    /\ [][SimplifiedTree => ChildrenKept]_vars

(* a node below the root whose player to move, after its simulation, is    *)
(* the player to move of its parent                                        *)
C37_PlayerOfParent ==
    /\ run.driver = "MonteCarloTree"
    /\ tree # NoTree
    /\ \E n \in 2..Len(tree) :
          /\ tree[n].game_state.current_player
                = tree[tree[n].parent].game_state.current_player
          /\ tree[n].visit_count > 0

(* a tree of the driver with nodes two levels below the root, after three  *)
(* cycles                                                                  *)
C37_GrownTree ==
    /\ run.driver \in MCTSDrivers
    /\ tree # NoTree
    /\ run.cycles >= 3
    /\ \E n \in 2..Len(tree) : tree[n].parent > 1
    /\ StatesFollowMoves(tree)

----------------------------------------------------------------------------
(* C38: after every complete cycle every node of the tree has a visit      *)
(* count of at least the sum of the visit counts of its children;          *)
(* consequently, whenever backpropagation computes the UCT score of a node *)
(* below the root, the visit count of its parent is at least 1 and the     *)
(* logarithm of the formula is defined.                                    *)

RECURSIVE SumOfVisits(_, _, _)
(* the visit counts of the first k children of a node, added up *)
SumOfVisits(t, node, k) ==
    IF k = 0 THEN 0
    ELSE t[t[node].children[k]].visit_count + SumOfVisits(t, node, k - 1)

VisitsCoverChildren(t) ==
    \A n \in 1..Len(t) : t[n].visit_count >= SumOfVisits(t, n, Len(t[n].children))

(* every score of a backpropagation is computed with a parent that has     *)
(* been visited, and nothing is raised                                     *)
LogarithmDefined ==
    op.name = "backpropagate" =>
        /\ op.raised = ""
        /\ \A n \in Chain(op.pre, op.node) :
              op.pre[n].parent # 0 => op.pre[op.pre[n].parent].visit_count >= 1

C38_VisitCounts ==
    /\ BetweenCycles => VisitsCoverChildren(tree)
    /\ (run.driver \in MCTSDrivers \cup TreeCycles) => LogarithmDefined

(* the part that holds: the tree of team42_A3_MCTS_simplified, on its own  *)
(* and under the drivers, where a visit count is the number of simulations *)
(* of the node itself plus the visit counts of the children; and the       *)
(* logarithm in every tree                                                 *)
C38_A3_VisitCounts ==
    /\ (BetweenCycles /\ run.driver # "MCT") =>
          /\ VisitsCoverChildren(tree)
          /\ \A n \in 1..Len(tree) :
                Len(tree[n].children) > 0 =>
                   tree[n].visit_count
                      = 1 + SumOfVisits(tree, n, Len(tree[n].children))
    /\ (run.driver \in MCTSDrivers \cup TreeCycles) => LogarithmDefined

(* team42_MCT: a leaf without a legal move is counted by traverse and by   *)
(* backpropagate, its parent by traverse only                              *)
C38_ChildAboveParent ==
    /\ BetweenCycles
    /\ run.driver = "MCT"
    /\ \E n \in 2..Len(tree) :
          tree[n].visit_count > tree[tree[n].parent].visit_count

(* a driver's tree after three cycles, with visits two levels below the    *)
(* root                                                                    *)
C38_VisitsBelowRoot ==
    /\ BetweenCycles
    /\ run.driver \in MCTSDrivers
    /\ run.cycles >= 3
    /\ \E n \in 2..Len(tree) : tree[n].parent > 1 /\ tree[n].visit_count > 0
    /\ VisitsCoverChildren(tree)

----------------------------------------------------------------------------
(* C39: cached UCT scores are current when they are used: at the start of  *)
(* every selection step, for every node below the root that has been       *)
(* visited, the cached uct_score is the UCT formula on the node's current  *)
(* win tally and visit count and on its parent's current visit count, for  *)
(* the nodes of the last backpropagated path and for their siblings.       *)

(* the start of a selection step in a tree of team42_A3_MCTS_simplified *)
SelectionStart ==
    /\ run.driver \in MCTSDrivers \cup {"MonteCarloTree"}
    /\ run.pc = "traverse"
    /\ tree # NoTree

VisitedBelowRoot == { n \in 2..Len(tree) : tree[n].visit_count > 0 }

C39_CachedScoresCurrent ==
    SelectionStart =>
        \A n \in VisitedBelowRoot :
            tree[n].uct_score = _calculate_score(tree, n, run.our_player_id)

(* the part that holds: the cached score is the formula on the node's      *)
(* current tally and visit count, and on a visit count the parent had      *)
(* before its last increment                                               *)
C39_CachedScoresOfOlderParent ==
    SelectionStart =>
        \A n \in VisitedBelowRoot :
            LET current == _calculate_score(tree, n, run.our_player_id)
            IN /\ tree[n].uct_score.kind = "value"
               /\ tree[n].uct_score.q_x2 = current.q_x2
               /\ tree[n].uct_score.n = current.n
               /\ tree[n].uct_score.parent_n >= 1
               /\ tree[n].uct_score.parent_n < current.parent_n

(* after a backpropagation, a node of the path whose cached score has the  *)
(* visit count its parent had before that backpropagation                  *)
C39_StaleOnPath ==
    /\ SelectionStart
    /\ op.name = "backpropagate"
    /\ \E n \in VisitedBelowRoot \cap Chain(op.pre, op.node) :
          /\ tree[n].uct_score.parent_n = op.pre[tree[n].parent].visit_count
          /\ tree[n].uct_score.parent_n = tree[tree[n].parent].visit_count - 1

(* a visited sibling off the last path, whose cached score is older still *)
C39_StaleSibling ==
    /\ SelectionStart
    /\ op.name = "backpropagate"
    /\ \E n \in VisitedBelowRoot \ Chain(op.pre, op.node) :
          /\ tree[n].parent \in Chain(op.pre, op.node)
          /\ tree[n].uct_score.parent_n < tree[tree[n].parent].visit_count - 1

----------------------------------------------------------------------------
(* C40: the max policy of _get_best_move ranks the children of the root by *)
(* the win ratio of the searching player, the player to move at the root   *)
(* whose id is passed to backpropagate: player1_wins / visits when that    *)
(* player is 1 and player2_wins / visits when it is 2, so the move         *)
(* proposed has the best win ratio for the agent whichever side it plays.  *)

(* the child the max policy returned *)
MaxPolicyChild == _get_best_move(tree, FALSE)

(* the win ratio of child a is above the one of child b, in the wins of    *)
(* player                                                                  *)
RatioAbove(a, b, player) ==
    WinsFor_x2(tree[a], player) * tree[b].visit_count
        > WinsFor_x2(tree[b], player) * tree[a].visit_count

(* no visited child has a higher ratio than the one returned, and the      *)
(* children before it in the list have a lower one                         *)
RankedFor(player) ==
    /\ MaxPolicyChild \in VisitedChildren
    /\ \A c \in VisitedChildren : ~ RatioAbove(c, MaxPolicyChild, player)
    /\ \A i, j \in 1..Len(tree[1].children) :
          (/\ tree[1].children[j] = MaxPolicyChild
           /\ i < j
           /\ tree[1].children[i] \in VisitedChildren)
             => RatioAbove(MaxPolicyChild, tree[1].children[i], player)
    /\ run.proposals[Len(run.proposals)] = tree[MaxPolicyChild].move

C40_RanksForSearchingPlayer ==
    BestMoveRun =>
        /\ run.our_player_id = heap[1].current_player
        /\ RankedFor(run.our_player_id)

(* the part that holds: the ranking is by player1_wins / visits, which is  *)
(* the ratio of the searching player when the agent is player 1            *)
C40_RanksForPlayer1 ==
    BestMoveRun =>
        /\ run.our_player_id = heap[1].current_player
        /\ RankedFor(1)
        /\ run.our_player_id = 1 => RankedFor(run.our_player_id)

(* the agent is player 2, and the move proposed is of a child in which     *)
(* player 2 won nothing while it won every game of another child           *)
C40_ProposedLostByAgent ==
    /\ BestMoveRun
    /\ run.our_player_id = 2
    /\ WinsFor_x2(tree[MaxPolicyChild], 2) = 0
    /\ \E c \in VisitedChildren :
          WinsFor_x2(tree[c], 2) = 2 * tree[c].visit_count

(* the agent is player 1, and the move proposed is of the child with the   *)
(* higher ratio of two visited children                                    *)
C40_ProposedWonByAgent ==
    /\ BestMoveRun
    /\ run.our_player_id = 1
    /\ \E c \in VisitedChildren : RatioAbove(MaxPolicyChild, c, 1)

====
